---- MODULE Spec2Model ----
(***************************************************************************)
(* Command parsing, device dispatch and the MQTT client pool of            *)
(* IMLine/IoTQbroker.py, the status relay of IMLine/IMQbroker.py with its  *)
(* chat-side send capability, the message handler of the device executor   *)
(* (IoTESP32/esp32_iot_device.py) and the binding store of config.py.      *)
(*                                                                         *)
(* Spec is the command side, ConsumerSpec the consuming side (status relay *)
(* and executor, with the /bind commands that fill the registry), and      *)
(* RegistrySpec the two binding registries.                                *)
(*                                                                         *)
(* A message text is a sequence of atoms.  An atom is a maximal run of     *)
(* non-blank characters, kept with the spelling it was typed in, or one    *)
(* blank character (" " or "\t").                                          *)
(***************************************************************************)
EXTENDS Integers, Sequences, FiniteSets, TLC

None == "None"

\* ------------------------------------------------------------------ bounds
\* Cap on the number of save_binding calls of one thread.
MaxCalls == 2
\* Cap on the number of connections the relay thread opens to RabbitMQ.
MaxConnections == 3
\* The broker refuses between 0 and MaxFails consecutive connection attempts.
MaxFails == 6
\* Cap on the number of MQTT client objects ever created for one chat key.
MaxClients == 2
\* The status queue fails between 0 and MaxPubFails publish attempts of one
\* notify_status call.
MaxPubFails == 3

\* ------------------------------------------------------- config.py values
SUPPORTED_DEVICES ==
    <<"esp32_light_001", "esp32_fan_002", "raspberrypi_light_001", "raspberrypi_fan_002">>

SupportedSet == {SUPPORTED_DEVICES[i] : i \in 1..Len(SUPPORTED_DEVICES)}

TELEGRAM_BOT_TOKEN == "YOUR_TELEGRAM_BOT_TOKEN"
LINE_ACCESS_TOKEN == "YOUR_LINE_ACCESS_TOKEN"

\* MessageAPI.connect: max_retries = 5, time.sleep(5)
max_retries == 5
SleepSeconds == 5

\* ------------------------------------------------------------ text atoms
SP == " "
TAB == "\t"

\* str.strip() and the regex class \s treat these as whitespace.
IsSpace(a) == a \in {SP, TAB}

\* str.lower() on one atom: the spellings that contain an upper-case letter.
LowerOf(a) ==
    CASE a = "Turn" -> "turn"
      [] a = "TURN" -> "turn"
      [] a = "ON" -> "on"
      [] a = "Off" -> "off"
      [] a = "Hi" -> "hi"
      [] a = "/START" -> "/start"
      [] a = "/Bind" -> "/bind"
      [] a = "/Status" -> "/status"
      [] a = "FooBar" -> "foobar"
      [] a = "ESP32_LIGHT_001" -> "esp32_light_001"
      [] a = "Garage_Door" -> "garage_door"
      [] OTHER -> a

\* Spellings made only of characters of the regex class [\w_].
WordSpellings ==
    SupportedSet \cup {"garage_door", "foobar", "turn", "on", "off", "get", "status",
                       "hi", "hello", "Turn", "TURN", "ON", "Off", "Hi", "FooBar",
                       "ESP32_LIGHT_001", "Garage_Door"}

\* [\w_]+ is matched against the text as it is, so an atom is a device token
\* only if all its characters are word characters ("foo-bar", "/bind" are not).
IsWordToken(a) == a \in WordSpellings

\* str.lower()
lower(t) == [i \in 1..Len(t) |-> LowerOf(t[i])]

RECURSIVE lstrip(_)
lstrip(t) == IF t # <<>> /\ IsSpace(Head(t)) THEN lstrip(Tail(t)) ELSE t

RECURSIVE rstrip(_)
rstrip(t) ==
    IF t # <<>> /\ IsSpace(t[Len(t)]) THEN rstrip(SubSeq(t, 1, Len(t) - 1)) ELSE t

\* str.strip()
strip(t) == rstrip(lstrip(t))

\* message_text.lower().strip()
NormalizeNoStrip(t) == lower(t)
Normalize(t) == strip(lower(t))

\* s starts with the literal atoms of lit
StartsWith(s, lit) == Len(s) >= Len(lit) /\ SubSeq(s, 1, Len(lit)) = lit

\* (\s+([\w_]+))?$ on the rest r of the text: nothing, or one or more blanks
\* followed by exactly one word token.  Gives the token's spelling, None when
\* the optional group is absent, and "nomatch" when the rest does not match.
OptionalToken(r) ==
    IF r = <<>> THEN None
    ELSE IF /\ Len(r) >= 2
            /\ \A i \in 1..(Len(r) - 1) : IsSpace(r[i])
            /\ ~IsSpace(r[Len(r)])
            /\ IsWordToken(r[Len(r)])
         THEN r[Len(r)]
         ELSE "nomatch"

\* re.match(r"^(lit1|lit2)(\s+([\w_]+))?$", s): [matched, group3]
re_match_cmd(s, lits) ==
    LET hits == {l \in lits : StartsWith(s, l)
                              /\ OptionalToken(SubSeq(s, Len(l) + 1, Len(s))) # "nomatch"}
    IN IF hits = {} THEN [matched |-> FALSE, group3 |-> None]
       ELSE LET l == CHOOSE x \in hits : TRUE
            IN [matched |-> TRUE, group3 |-> OptionalToken(SubSeq(s, Len(l) + 1, Len(s)))]

\* re.match(r"^/bind\s+([\w_]+)$", s): the token is required
re_match_bind(s) ==
    LET m == re_match_cmd(s, {<<"/bind">>})
    IN IF m.matched /\ m.group3 # None THEN m ELSE [matched |-> FALSE, group3 |-> None]

EnableLits == {<<"turn", SP, "on">>, <<"/enable">>}
DisableLits == {<<"turn", SP, "off">>, <<"/disable">>}
StatusLits == {<<"get", SP, "status">>, <<"/status">>}
GreetingTextsWithoutStart == {<<"hi">>, <<"hello">>}
GreetingTexts == {<<"hi">>, <<"hello">>, <<"/start">>}

\* ------------------------------------------------------- MQTT client pool
\* The shared state a handler reads and writes, as one record:
\*   client_pool  chat key -> client id          (IoTQbroker.client_pool)
\*   clients      client id -> [connected, started]   (the paho clients)
\*   nextClient   chat key -> serial of the next mqtt.Client(...) made for it;
\*                a client id is <<key, serial>> (client_id has a fresh uuid4)
\*   bindings     device id -> set of chat ids   (IoTQbroker.bindings)

\* self.chat_id = chat_id or "default"
PoolKey(chat_id) == IF chat_id = None THEN "default" ELSE chat_id

\* The while loop of MessageAPI.connect against a broker that refuses the
\* first `fails` attempts: attempts counts the calls of client.connect,
\* sleeps the calls of time.sleep(5).
RECURSIVE connect_loop(_, _, _, _)
connect_loop(retry_count, sleeps, fails, limit) ==
    IF retry_count < limit
    THEN IF retry_count + 1 > fails
         THEN [raised |-> FALSE, connected |-> TRUE,
               attempts |-> retry_count + 1, sleeps |-> sleeps]
         ELSE IF retry_count + 1 = limit
              THEN [raised |-> TRUE, connected |-> FALSE,
                    attempts |-> retry_count + 1, sleeps |-> sleeps]
              ELSE connect_loop(retry_count + 1, sleeps + 1, fails, limit)
    ELSE [raised |-> FALSE, connected |-> FALSE,
          attempts |-> retry_count, sleeps |-> sleeps]

connectOneMore(fails) == connect_loop(0, 0, fails, max_retries + 1)
connect(fails) == connect_loop(0, 0, fails, max_retries)

NoAcq ==
    [made |-> FALSE, key |-> None, client |-> <<None, 0>>, reused |-> FALSE, raised |-> FALSE,
     attempts |-> 0, sleeps |-> 0, waited |-> 0]

\* Creating a client for the key: it is stored in the pool first and
\* connected after that (lines 137-144).
CreateClient(s, key, fails) ==
    LET c == <<key, s.nextClient[key]>>
        r == connect(fails)
    IN [s |-> [s EXCEPT !.client_pool = (key :> c) @@ @,
                        !.clients = (c :> [connected |-> r.connected,
                                           started |-> r.connected]) @@ @,
                        !.nextClient[key] = @ + 1],
        acq |-> [made |-> TRUE, key |-> key, client |-> c,
                 reused |-> FALSE, raised |-> r.raised,
                 attempts |-> r.attempts, sleeps |-> r.sleeps,
                 waited |-> r.sleeps * SleepSeconds]]

MessageAPI_init_always_new(s, chat_id, fails) == CreateClient(s, PoolKey(chat_id), fails)

MessageAPI_init_failure_resets_pool(s, chat_id, fails) ==
    LET key == PoolKey(chat_id)
        m == CreateClient(s, key, fails)
    IN IF key \in DOMAIN s.client_pool
       THEN [s |-> s,
             acq |-> [made |-> TRUE, key |-> key, client |-> s.client_pool[key],
                      reused |-> TRUE, raised |-> FALSE,
                      attempts |-> 0, sleeps |-> 0, waited |-> 0]]
       ELSE IF m.acq.raised
            THEN [m EXCEPT !.s.client_pool = (key :> m.acq.client)]
            ELSE m

\* MessageAPI.__init__: reuse the pooled client of the key, or create one,
\* store it in the pool and only then connect it.
MessageAPI_init(s, chat_id, fails) ==
    LET key == PoolKey(chat_id)
    IN IF key \in DOMAIN s.client_pool
       THEN [s |-> s,
             acq |-> [made |-> TRUE, key |-> key, client |-> s.client_pool[key],
                      reused |-> TRUE, raised |-> FALSE,
                      attempts |-> 0, sleeps |-> 0, waited |-> 0]]
       ELSE CreateClient(s, key, fails)

\* "raspberrypi" in device_id, "light" in device_id
ContainsRaspberrypiLightOnly(device_id) == device_id = "raspberrypi_light_001"
ContainsRaspberrypi(device_id) == device_id \in {"raspberrypi_light_001", "raspberrypi_fan_002"}
ContainsLight(device_id) == device_id \in {"esp32_light_001", "raspberrypi_light_001"}

\* Device.__init__: derives the classes and builds the MessageAPI; an
\* exception of MessageAPI.__init__ is re-raised.
Device_init_swallows(s, device_id, platform, chat_id, fails) ==
    LET m == MessageAPI_init(s, chat_id, fails)
    IN [s |-> m.s, acq |-> m.acq, raised |-> FALSE,
        dev |-> [device_id |-> device_id, chat_id |-> chat_id, platform |-> platform,
                 group_id |-> None, group_members |-> {},
                 manufacturer |-> IF ContainsRaspberrypi(device_id)
                                  THEN "raspberrypi" ELSE "esp32",
                 device_type |-> IF ContainsLight(device_id) THEN "light" ELSE "fan",
                 client |-> m.acq.client]]
Device_init(s, device_id, platform, chat_id, fails) ==
    LET m == MessageAPI_init(s, chat_id, fails)
    IN [s |-> m.s, acq |-> m.acq, raised |-> m.acq.raised,
        dev |-> [device_id |-> device_id, chat_id |-> chat_id, platform |-> platform,
                 group_id |-> None, group_members |-> {},
                 manufacturer |-> IF ContainsRaspberrypi(device_id)
                                  THEN "raspberrypi" ELSE "esp32",
                 device_type |-> IF ContainsLight(device_id) THEN "light" ELSE "fan",
                 client |-> m.acq.client]]

\* What client.publish does: "ok" hands the packet to the broker, "no_conn"
\* is the return code MQTT_ERR_NO_CONN of a client that is not connected (no
\* exception), "raise" is an exception out of publish.
PublishOutcome(s, client, pubRaises) ==
    IF pubRaises THEN "raise"
    ELSE IF s.clients[client].connected THEN "ok" ELSE "no_conn"

\* MessageAPI.send_message: one publish call, its return code ignored;
\* False only when publish raised.  It never reconnects.
MessageAPI_send_message_retries(s, client, topic, message, pubRaises) ==
    LET outcome == PublishOutcome(s, client, pubRaises)
        call == [topic |-> topic, message |-> message, outcome |-> outcome, client |-> client]
    IN [ret |-> outcome # "raise",
        calls |-> IF outcome = "raise" THEN <<call, call>> ELSE <<call>>,
        reconnects |-> 0]
MessageAPI_send_message(s, client, topic, message, pubRaises) ==
    LET outcome == PublishOutcome(s, client, pubRaises)
    IN [ret |-> outcome # "raise",
        calls |-> <<[topic |-> topic, message |-> message, outcome |-> outcome,
                     client |-> client]>>,
        reconnects |-> 0]

\* config.TELEGRAM_BOT_TOKEN if platform == "telegram" else config.LINE_ACCESS_TOKEN
BotToken(platform) ==
    IF platform = "telegram" THEN TELEGRAM_BOT_TOKEN ELSE LINE_ACCESS_TOKEN

\* The envelope Device.enable / disable / get_status build.
Envelope(dev, command, chat_id, platform, user_id, username, bot_token) ==
    [command |-> command, chat_id |-> chat_id, platform |-> platform,
     device_id |-> dev.device_id, user_id |-> user_id, username |-> username,
     bot_token |-> IF bot_token # None THEN bot_token ELSE BotToken(platform)]

Device_enable(s, dev, chat_id, platform, user_id, username, bot_token, pubRaises) ==
    MessageAPI_send_message(s, dev.client,
        <<dev.manufacturer, dev.device_type, "enable">>,
        Envelope(dev, "on", chat_id, platform, user_id, username, bot_token), pubRaises)

Device_disable(s, dev, chat_id, platform, user_id, username, bot_token, pubRaises) ==
    MessageAPI_send_message(s, dev.client,
        <<dev.manufacturer, dev.device_type, "disable">>,
        Envelope(dev, "off", chat_id, platform, user_id, username, bot_token), pubRaises)

Device_get_status(s, dev, chat_id, platform, user_id, username, bot_token, pubRaises) ==
    MessageAPI_send_message(s, dev.client,
        <<dev.manufacturer, dev.device_type, "get_status">>,
        Envelope(dev, "get_status", chat_id, platform, user_id, username, bot_token),
        pubRaises)

\* ------------------------------------------------------ chat-side sending
\* A text sent to a user: its format string, the value substituted in it,
\* and the list joined into it (', '.join(config.SUPPORTED_DEVICES)).
Text(fmt, arg, list) == [fmt |-> fmt, arg |-> arg, list |-> list]

\* One call of IMQbroker.send_message(chat_id, text, platform, ...).
Send(chat_id, text, platform) == [chat_id |-> chat_id, text |-> text, platform |-> platform]

\* The members Device.bind_user notifies when the device already has a
\* group: every member other than the new one.
RECURSIVE JoinNotices(_, _, _, _)
JoinNotices(members, chat_id, device_id, platform) ==
    IF members = {} THEN <<>>
    ELSE LET m == CHOOSE x \in members : TRUE
             rest == JoinNotices(members \ {m}, chat_id, device_id, platform)
         IN IF m # chat_id
            THEN <<Send(m, Text("User {} has joined the group for device {}",
                                chat_id, <<device_id>>), platform)>> \o rest
            ELSE rest

\* Device.bind_user on the device object dev.
Device_bind_user(s, dev, chat_id, platform) ==
    LET old == IF dev.device_id \in DOMAIN s.bindings
               THEN s.bindings[dev.device_id] ELSE {}
        s2 == [s EXCEPT !.bindings = (dev.device_id :> (old \cup {chat_id})) @@ @]
    IN IF dev.group_id = None
       THEN [s |-> s2, ret |-> TRUE, sent |-> <<>>,
             dev |-> [dev EXCEPT !.group_id = chat_id,
                                 !.group_members = @ \cup {chat_id}]]
       ELSE IF chat_id \notin dev.group_members
            THEN [s |-> s2, ret |-> TRUE,
                  sent |-> JoinNotices(dev.group_members \cup {chat_id}, chat_id,
                                       dev.device_id, platform),
                  dev |-> [dev EXCEPT !.group_members = @ \cup {chat_id}]]
            ELSE [s |-> s2, ret |-> TRUE, sent |-> <<>>, dev |-> dev]

\* ------------------------------------------- status relay (IMQbroker.py)
\* config.DEVICE_ID
DEVICE_ID == "esp32_light_001"

\* A key a JSON object does not have.
Missing == "<missing>"

\* A routing key is a sequence of atoms: "/" or a maximal run of other
\* characters.  routing_key.split("/"): the segments between the slashes,
\* empty segments included.
SLASH == "/"

RECURSIVE split_from(_, _)
split_from(key, segment) ==
    IF key = <<>> THEN <<segment>>
    ELSE IF Head(key) = SLASH THEN <<segment>> \o split_from(Tail(key), "")
    ELSE split_from(Tail(key), Head(key))

split(key) == split_from(key, "")

\* f"Hi, {username}\n"
GreetingOf(username) ==
    IF username = "Alice" THEN "Hi, Alice\n" ELSE "Hi, User\n"

\* f"{greeting}Device {device_id} is now {status}, operated by user {username}"
OriginText(greeting, device_id, status, username) ==
    Text("{}Device {} is now {}, operated by user {}", greeting,
         <<device_id, status, username>>)

\* f"Device {device_id} has been set to {status} by user {username}"
OtherText(device_id, status, username) ==
    Text("Device {} has been set to {} by user {}", None, <<device_id, status, username>>)

\* bindings.get(device_id, set())
BoundChats(b, device_id) == IF device_id \in DOMAIN b THEN b[device_id] ELSE {}

\* The loop over the bound users (lines 148-153): every one not notified
\* yet is sent the third-person text, through the platform of the routing
\* key.
RECURSIVE FanOut(_, _, _, _)
FanOut(bound_users, notified_users, text, platform) ==
    IF bound_users = {} THEN <<>>
    ELSE LET bound_user == CHOOSE x \in bound_users : TRUE
         IN IF bound_user \notin notified_users
            THEN <<Send(bound_user, text, platform)>>
                 \o FanOut(bound_users \ {bound_user}, notified_users \cup {bound_user},
                           text, platform)
            ELSE FanOut(bound_users \ {bound_user}, notified_users, text, platform)

\* A delivery not settled (yet); basic_ack; basic_nack(requeue=...).
NoSettle == [kind |-> "none", requeue |-> FALSE]
Ack == [kind |-> "ack", requeue |-> FALSE]
NackRequeues(requeue) == [kind |-> "nack", requeue |-> TRUE]
Nack(requeue) == [kind |-> "nack", requeue |-> requeue]

\* callback of consume_im_queue on the shared state s and the greeted set.
\* body.kind is "invalid" (json.loads raises), "number" (a JSON scalar) or
\* "object" with the keys of body.doc; fails is the number of connection
\* attempts the control broker refuses while the Device is built.
\* len(parts) < 3 (line 89)
ShortKeyNever(parts) == FALSE
ShortKey(parts) == Len(parts) < 3

\* event == "status_update" (line 99)
IsStatusUpdateAny(event) == TRUE
IsStatusUpdate(event) == event = "status_update"

\* except Exception (lines 159-161): basic_nack(requeue=False); nothing is
\* re-raised into start_consuming.
OnExceptionAcks == Ack
OnException == Nack(FALSE)

\* The calls the callback makes, in the order of its statements: the
\* send_message calls of lines 134-152 and, after the loops, the
\* settlement on the channel (line 155; on the other paths nothing is sent
\* before basic_ack / basic_nack).
AckBeforeSends(snt, stl) ==
    <<[call |-> IF stl.kind = "ack" THEN "basic_ack" ELSE "basic_nack", arg |-> stl]>>
    \o [i \in 1..Len(snt) |-> [call |-> "send_message", arg |-> snt[i]]]
AckAfterSends(snt, stl) ==
    [i \in 1..Len(snt) |-> [call |-> "send_message", arg |-> snt[i]]]
    \o <<[call |-> IF stl.kind = "ack" THEN "basic_ack" ELSE "basic_nack", arg |-> stl]>>

callback(s, greeted, routing_key, body, fails) ==
    LET Out(s2, g, snt, stl, aq) ==
            [s |-> s2, greeted |-> g, sent |-> snt, settle |-> stl, acq |-> aq,
             trace |-> AckAfterSends(snt, stl)]
        Done(stl) == Out(s, greeted, <<>>, stl, NoAcq)
        message == body.doc
        parts == split(routing_key)
        platform == parts[1]
        chat_id == parts[2]
        event == IF Len(parts) > 2 THEN parts[3] ELSE "unknown"
        status == message.device_status
        device_id == IF message.device_id = Missing THEN DEVICE_ID ELSE message.device_id
        username == IF message.username = Missing THEN "User" ELSE message.username
        d == Device_init(s, device_id, "unknown", None, fails)
        greeting == IF chat_id \notin greeted THEN GreetingOf(username) ELSE ""
        notified_users == {chat_id} \cup (IF d.dev.group_id # None /\ d.dev.group_members # {}
                                          THEN d.dev.group_members ELSE {})
    IN IF body.kind = "invalid" THEN Done(Nack(FALSE))
       ELSE IF ShortKey(parts) THEN Done(Ack)
       \* parts[1] of a key without "/" raises IndexError
       ELSE IF Len(parts) < 2 THEN Done(OnException)
       ELSE IF ~IsStatusUpdate(event) THEN Done(Ack)
       \* "device_status" not in message raises TypeError for a number
       ELSE IF body.kind = "number" THEN Done(OnException)
       ELSE IF message.device_status = Missing THEN Done(Ack)
       ELSE IF d.raised THEN Out(d.s, greeted, <<>>, OnException, d.acq)
       ELSE IF chat_id = "" THEN Out(d.s, greeted, <<>>, Ack, d.acq)
       ELSE IF platform \notin {"telegram", "line"} THEN Out(d.s, greeted, <<>>, Ack, d.acq)
       ELSE Out(d.s, greeted \cup {chat_id},
                <<Send(chat_id, OriginText(greeting, device_id, status, username), platform)>>
                \o FanOut(BoundChats(d.s.bindings, device_id), notified_users,
                          OtherText(device_id, status, username), platform),
                Ack, d.acq)

\* ------------------------------- device executors and the virtual devices
\* config.RABBITMQ_LINE_QUEUE, config.RABBITMQ_TELEGRAM_QUEUE
RABBITMQ_LINE_QUEUE == "IM_Line_Queue"
RABBITMQ_TELEGRAM_QUEUE == "IM_Telegram_Queue"

\* No executor ran: no device HTTP call, no status event published.
NoExecutor == [http |-> <<>>, status |-> <<>>, attempts |-> 0]

\* notify_status: max_retries = 3
status_max_retries == 3

\* ESP32Device.notify_status: up to 3 attempts to publish the status event
\* on the queue of the platform; pubFails is the number of attempts in which
\* the connection is down or the publish fails.  With an unsupported
\* platform the first attempt that has a connection returns without
\* publishing.
notify_status_unbounded(self_id, status, payload, pubFails) ==
    LET queue_name == IF payload.platform = "line" THEN RABBITMQ_LINE_QUEUE
                      ELSE RABBITMQ_TELEGRAM_QUEUE
        event == [device_status |-> status, device_id |-> self_id,
                  chat_id |-> payload.chat_id, platform |-> payload.platform,
                  username |-> payload.username, bot_token |-> payload.bot_token]
    IN IF payload.platform \notin {"line", "telegram"}
       THEN [status |-> <<>>, attempts |-> pubFails + 1]
       ELSE [status |-> <<[queue |-> queue_name, event |-> event]>>,
             attempts |-> pubFails + 1]
notify_status(self_id, status, payload, pubFails) ==
    LET queue_name == IF payload.platform = "line" THEN RABBITMQ_LINE_QUEUE
                      ELSE RABBITMQ_TELEGRAM_QUEUE
        event == [device_status |-> status, device_id |-> self_id,
                  chat_id |-> payload.chat_id, platform |-> payload.platform,
                  username |-> payload.username, bot_token |-> payload.bot_token]
    IN IF pubFails >= status_max_retries
       THEN [status |-> <<>>, attempts |-> status_max_retries]
       ELSE IF payload.platform \notin {"line", "telegram"}
       THEN [status |-> <<>>, attempts |-> pubFails + 1]
       ELSE [status |-> <<[queue |-> queue_name, event |-> event]>>,
             attempts |-> pubFails + 1]

\* The executors: the ESP32 one (esp32_iot_device.py, device config.DEVICE_ID,
\* GET {url}/ESP32/{device_id}/...) and the Raspberry Pi one
\* (raspberrypi_iot_device.py, POST {url}/Pi/{device_id}/...).
Executors ==
    {[device_id |-> DEVICE_ID, prefix |-> "ESP32"],
     [device_id |-> "raspberrypi_light_001", prefix |-> "Pi"]}

\* find_device of the virtual device: the entry of the id, appended with
\* state off when there is none.
find_device(devs, device_id) ==
    IF device_id \in DOMAIN devs THEN devs ELSE devs @@ (device_id :> "off")

\* device_id != <own id> (virtual device, enable line 116)
NotOwnDevice(device_id, own_id) == device_id = None \/ device_id # own_id

\* enable / disable / get_status of the virtual device whose id is own_id
\* (esp32_virtual_device.py, raspberry_pi_virtual_device.py): 403 when the
\* signature does not verify, 400 for another device id, else the state of
\* its device is set (Enable: on, Disable: off) and reported with 200.
virtual_device(own_id, devs, path, device_id, verified) ==
    LET found == find_device(devs, device_id)
        state == IF path = "Enable" THEN "on"
                 ELSE IF path = "Disable" THEN "off" ELSE found[device_id]
    IN IF ~verified THEN [devices |-> devs, code |-> "403", state |-> "unknown"]
       ELSE IF NotOwnDevice(device_id, own_id)
       THEN [devices |-> devs, code |-> "400", state |-> "unknown"]
       ELSE [devices |-> [found EXCEPT ![device_id] = state], code |-> "200",
             state |-> state]

\* device_id != self.device_id (handle_enable line 228)
OtherDeviceNever(device_id, self_id) == FALSE
OtherDevice(device_id, self_id) == device_id # self_id

\* response.status_code == 200 (handle_enable line 256)
RequestSucceededAlways(code) == TRUE
RequestSucceeded(code) == code = "200"

\* handle_enable / handle_disable / handle_get_status of executor e: the
\* device-id check, the signature, the request to the device and, on 200,
\* the status event.  http is what the request meets: "200" the device, which
\* verifies the signature, "403" the device, which does not, "500" an error
\* answer on the way, "timeout" a RequestException, "raise" another
\* exception in the handler (it leaves the handler).  devs is the device
\* list of the virtual device of the executor.
handle(e, payload, path, sigOk, http, devs, pubFails) ==
    LET self_id == e.device_id
        v == IF http \in {"200", "403"}
             THEN virtual_device(self_id, devs, path, self_id, http = "200")
             ELSE [devices |-> devs, code |-> http, state |-> "unknown"]
        call == [url |-> <<e.prefix, payload.device_id, path>>, device_id |-> self_id,
                 chat_id |-> payload.chat_id, response |-> v.code]
        n == notify_status(self_id,
                           IF path = "Enable" THEN "on"
                           ELSE IF path = "Disable" THEN "off" ELSE v.state,
                           payload, pubFails)
        Quiet(calls) == [executor |-> [NoExecutor EXCEPT !.http = calls],
                         devices |-> v.devices, raised |-> FALSE]
    IN IF OtherDevice(payload.device_id, self_id)
       THEN [executor |-> NoExecutor, devices |-> devs, raised |-> FALSE]
       ELSE IF ~sigOk THEN [executor |-> NoExecutor, devices |-> devs, raised |-> FALSE]
       ELSE IF http = "raise" THEN [executor |-> NoExecutor, devices |-> devs, raised |-> TRUE]
       ELSE IF ~RequestSucceeded(v.code) THEN Quiet(<<call>>)
       ELSE [executor |-> [http |-> <<call>>, status |-> n.status, attempts |-> n.attempts],
             devices |-> v.devices, raised |-> FALSE]

\* except Exception of on_rabbitmq_message (lines 126-128):
\* basic_nack(requeue=False)
HandlerRaised == Nack(FALSE)

\* on_rabbitmq_message of executor e: the command is dispatched to its
\* handler and the message acknowledged when the handler returns.
on_rabbitmq_message(e, body, sigOk, http, devs, pubFails) ==
    LET payload == body.doc
        Unhandled == [executor |-> NoExecutor, devices |-> devs, raised |-> FALSE]
        h == IF payload.command = "on"
             THEN handle(e, payload, "Enable", sigOk, http, devs, pubFails)
             ELSE IF payload.command = "off"
             THEN handle(e, payload, "Disable", sigOk, http, devs, pubFails)
             ELSE IF payload.command = "get_status"
             THEN handle(e, payload, "GetStatus", sigOk, http, devs, pubFails)
             ELSE Unhandled
    IN IF body.kind = "invalid"
       THEN [settle |-> Nack(FALSE), executor |-> NoExecutor, devices |-> devs]
       \* payload.get of a JSON scalar raises AttributeError
       ELSE IF body.kind = "number"
       THEN [settle |-> HandlerRaised, executor |-> NoExecutor, devices |-> devs]
       ELSE IF h.raised
       THEN [settle |-> HandlerRaised, executor |-> h.executor, devices |-> h.devices]
       ELSE [settle |-> Ack, executor |-> h.executor, devices |-> h.devices]

\* ------------------------------------------------ binding store (config.py)
\* One record of the bindings document: {"chat_id": ..., "platform": ...}.
Binding(chat_id, platform) == [chat_id |-> chat_id, platform |-> platform]

\* The list the mapping holds for a device, as dict.get(device_id, []).
BindingsOf(data, device_id) ==
    IF device_id \in DOMAIN data THEN data[device_id] ELSE <<>>

\* How many records of the list equal b.
CountBinding(list, b) == Cardinality({i \in 1..Len(list) : list[i] = b})

\* load_bindings while the file is as the last load or save left it (its
\* mtime is not newer than _bindings_last_modified): the cached mapping.  The
\* copy it returns is shallow, so the lists are the lists of the cache.
load_bindings(r) == r.cached_bindings

\* save_binding on the store r = [cached_bindings, bindings_file].  writeFails:
\* opening the file for writing raises.  log is the line it logs.
save_binding_always_appends(r, device_id, chat_id, platform, writeFails) ==
    LET bindings_data == load_bindings(r)
        appended == (device_id :> Append(BindingsOf(bindings_data, device_id),
                                         Binding(chat_id, platform))) @@ bindings_data
    IN [r |-> [cached_bindings |-> appended, bindings_file |-> appended],
        ret |-> TRUE, log |-> "Saved binding"]

save_binding(r, device_id, chat_id, platform, writeFails) ==
    LET bindings_data == load_bindings(r)
        list == BindingsOf(bindings_data, device_id)
        appended == (device_id :> Append(list, Binding(chat_id, platform))) @@ bindings_data
    IN IF CountBinding(list, Binding(chat_id, platform)) > 0
       THEN [r |-> r, ret |-> TRUE, log |-> "Binding already exists"]
       ELSE IF writeFails
       \* the append went into the list object the cache shares when the
       \* device had a list; a list made for a new device is dropped
       THEN [r |-> [r EXCEPT !.cached_bindings =
                        IF device_id \in DOMAIN bindings_data THEN appended ELSE @],
             ret |-> FALSE, log |-> "Failed to save binding"]
       ELSE [r |-> [cached_bindings |-> appended, bindings_file |-> appended],
             ret |-> TRUE, log |-> "Saved binding"]

\* ------------------------------------- save_binding, statement by statement
\* The request threads of the Flask server (app.run(threaded=True)).
Threads == {"t1", "t2"}

\* A thread that is in no save_binding call.
IdleSaver ==
    [pc |-> "idle", device_id |-> None, binding |-> Binding(None, None), data |-> <<>>,
     ret |-> FALSE, calls |-> 0]

\* The mapping a dict of list objects stands for: refs gives the list object
\* of each device id, h the content of each list object.
Deref(refs, h) == [d \in DOMAIN refs |-> h[refs[d]]]

\* Lines 182-183: the dict the thread holds gets a new, empty list object for
\* a device it has none for.
WithList(data, h, device_id) ==
    IF device_id \in DOMAIN data
    THEN [data |-> data, heap |-> h]
    ELSE [data |-> (device_id :> Len(h) + 1) @@ data, heap |-> Append(h, <<>>)]

\* --------------------------------------------------------- command parser
Result(success, action, device_id, message) ==
    [success |-> success, action |-> action, device_id |-> device_id, message |-> message]

NoDispatch == [made |-> FALSE, ret |-> FALSE, calls |-> <<>>, reconnects |-> 0]

Dispatched(r) == [made |-> TRUE, ret |-> r.ret, calls |-> r.calls, reconnects |-> r.reconnects]

HelpText(username) ==
    Text("Hi, {}\nThis is an IoT control bot\nUse the following commands: ...", username, <<>>)

InvalidDeviceText(device_id) ==
    Text("Invalid device ID: {}. Available devices: {}", device_id, SUPPORTED_DEVICES)

\* device_id of lines 235-243: the explicit token of the matching command,
\* else the device the caller passed.
ResolveUsesDefault(enable_match, disable_match, status_match, device) ==
    device.device_id

ResolveDeviceId(enable_match, disable_match, status_match, device) ==
    IF enable_match.matched /\ enable_match.group3 # None THEN enable_match.group3
    ELSE IF disable_match.matched /\ disable_match.group3 # None THEN disable_match.group3
    ELSE IF status_match.matched /\ status_match.group3 # None THEN status_match.group3
    ELSE device.device_id

\* device_id not in config.SUPPORTED_DEVICES (line 245)
IsUnsupportedSkipped(device_id) == FALSE
IsUnsupported(device_id) == device_id \notin SupportedSet

\* IoTParse_Message on the shared state s.  fails and pubRaises are what the
\* broker does during the call: the number of connection attempts it refuses
\* and whether client.publish raises.
IoTParse_Message(s, text, device, chat_id, platform, user_id0, username0, fails, pubRaises) ==
    LET message_text == Normalize(text)
        username == IF username0 = None THEN "User" ELSE username0
        user_id == IF user_id0 = None THEN "Unknown" ELSE user_id0
        bot_token == BotToken(platform)
        Say(t) == Send(chat_id, t, platform)
        Out(s2, res, snt, dsp, aq) ==
            [s |-> s2, result |-> res, sent |-> snt, dispatch |-> dsp, acq |-> aq]
        \* the except clause of lines 275-278
        Error(s2, aq) ==
            Out(s2, Result(FALSE, None, None, "Error processing command"),
                <<Say(Text("An error occurred while processing your command. Please try again.",
                           None, <<>>))>>,
                NoDispatch, aq)
        bind_match == re_match_bind(message_text)
        enable_match == re_match_cmd(message_text, EnableLits)
        disable_match == re_match_cmd(message_text, DisableLits)
        status_match == re_match_cmd(message_text, StatusLits)
        device_id == ResolveDeviceId(enable_match, disable_match, status_match, device)
        Command(d, r, verb, action, failtext, failmsg) ==
            IF r.ret
            THEN Out(d.s, Result(TRUE, action, device_id, None),
                     <<Say(Text(verb, device_id, <<>>))>>, Dispatched(r), d.acq)
            ELSE Out(d.s, Result(FALSE, None, None, failmsg),
                     <<Say(Text(failtext, device_id, <<>>))>>, Dispatched(r), d.acq)
    IN IF message_text \in GreetingTexts
       THEN Out(s, Result(TRUE, "Help", None, None), <<Say(HelpText(username))>>,
                NoDispatch, NoAcq)
       ELSE IF bind_match.matched
       THEN IF IsUnsupported(bind_match.group3)
            THEN Out(s, Result(FALSE, None, None, "Invalid device ID"),
                     <<Say(InvalidDeviceText(bind_match.group3))>>, NoDispatch, NoAcq)
            ELSE LET d == Device_init(s, bind_match.group3, platform, chat_id, fails)
                     b == Device_bind_user(d.s, d.dev, chat_id, platform)
                 IN IF d.raised THEN Error(d.s, d.acq)
                    ELSE IF b.ret
                    THEN Out(b.s, Result(TRUE, "Bind", bind_match.group3, None),
                             b.sent \o <<Say(Text("Successfully bound to device {}",
                                                  bind_match.group3, <<>>))>>,
                             NoDispatch, d.acq)
                    ELSE Out(b.s, Result(FALSE, None, None, "Failed to bind to device"),
                             b.sent \o <<Say(Text("Failed to bind to device {}",
                                                  bind_match.group3, <<>>))>>,
                             NoDispatch, d.acq)
       ELSE IF IsUnsupported(device_id)
       THEN Out(s, Result(FALSE, None, None, "Invalid device ID"),
                <<Say(InvalidDeviceText(device_id))>>, NoDispatch, NoAcq)
       ELSE LET d == Device_init(s, device_id, platform, chat_id, fails)
            IN IF d.raised THEN Error(d.s, d.acq)
               ELSE IF enable_match.matched
               THEN Command(d, Device_enable(d.s, d.dev, chat_id, platform, user_id,
                                             username, bot_token, pubRaises),
                            "Command received: Enable {}", "Enable",
                            "Failed to enable device {}", "Failed to enable device")
               ELSE IF disable_match.matched
               THEN Command(d, Device_disable(d.s, d.dev, chat_id, platform, user_id,
                                              username, bot_token, pubRaises),
                            "Command received: Disable {}", "Disable",
                            "Failed to disable device {}", "Failed to disable device")
               ELSE IF status_match.matched
               THEN Command(d, Device_get_status(d.s, d.dev, chat_id, platform, user_id,
                                                 username, bot_token, pubRaises),
                            "Command received: Get status of {}", "GetStatus",
                            "Failed to get status of device {}",
                            "Failed to get device status")
               ELSE Out(d.s, Result(FALSE, None, None, "Invalid command"),
                        <<Say(Text("Invalid command. Please use /start to view help.",
                                   None, <<>>))>>, NoDispatch, d.acq)

\* --------------------------------------- the bindings document, as read
\* A document somebody put in place of bindings.json: text that is no JSON,
\* or a JSON object whose members, in the order of the text, are a device id
\* with a value; a value is a list of entries or something else, an entry is
\* an object that has chat_id and platform or lacks one of them.
NoDoc == [kind |-> "none", items |-> <<>>]
InvalidDoc == [kind |-> "invalid", items |-> <<>>]
ObjectDoc(items) == [kind |-> "object", items |-> items]
Member(device_id, value) == [device_id |-> device_id, value |-> value]
ListValue(entries) == [kind |-> "list", entries |-> entries]
StringValue == [kind |-> "string", entries |-> <<>>]

\* all(key in binding for key in ["chat_id", "platform"])
HasKeys(binding) == binding.chat_id # Missing /\ binding.platform # Missing

\* The validation loop of lines 131-140 from member i on.  reset: whether
\* bindings_data has been set to default_bindings by the inner loop, whose
\* break leaves the outer loop running over the members of the document:
\* the next bindings_data[device_id] then raises KeyError.  A value that is
\* no list sets the default and leaves the loop.
RECURSIVE validate_accepts_all(_, _, _)
validate_accepts_all(items, i, reset) == "ok"
RECURSIVE validate(_, _, _)
validate(items, i, reset) ==
    IF i > Len(items) THEN (IF reset THEN "default" ELSE "ok")
    ELSE IF reset THEN "raise"
    ELSE IF items[i].value.kind # "list" THEN "default"
    ELSE validate(items, i + 1,
                  \E k \in 1..Len(items[i].value.entries) :
                     ~HasKeys(items[i].value.entries[k]))

\* The dict json.load builds of the members.
RECURSIVE DictOf(_)
DictOf(items) ==
    IF items = <<>> THEN <<>>
    ELSE (items[Len(items)].device_id :> items[Len(items)].value.entries)
         @@ DictOf(SubSeq(items, 1, Len(items) - 1))

\* What load_bindings does with config_lock when its with block is left by
\* an exception: the block releases the lock, the except clause takes it
\* again (lines 155, 161).
LockedTwice == <<"acquire", "release", "acquire", "release">>
LockedOnce == <<"acquire", "release">>

\* load_bindings (lines 100-164) when bindings.json holds doc; newer: its
\* mtime is greater than _bindings_last_modified.  It gives the cache it
\* leaves, what it returns, whether an exception leaves it, and what it did
\* with config_lock.
load_bindings_file(cached, doc, newer) ==
    LET Out(c, ret, locks) == [cached |-> c, ret |-> ret, raised |-> FALSE, locks |-> locks]
        v == validate(doc.items, 1, FALSE)
    IN IF ~newer \/ doc.kind = "none" THEN Out(cached, cached, LockedOnce)
       \* json.JSONDecodeError (lines 153-158)
       ELSE IF doc.kind = "invalid" THEN Out(<<>>, <<>>, LockedTwice)
       \* except Exception (lines 159-164)
       ELSE IF v = "raise" THEN Out(<<>>, <<>>, LockedTwice)
       ELSE IF v = "default" THEN Out(<<>>, <<>>, LockedOnce)
       ELSE Out(DictOf(doc.items), DictOf(doc.items), LockedOnce)

\* --------------------------------------- consumer loop (consume_im_queue)
\* What one connection of the relay declares before it consumes:
\* exchange_declare (line 66), queue_declare (line 78), queue_bind (line 79).
Declarations == {"exchange", "queue", "binding"}

\* The relay thread before consume_im_queue has connected: no connection
\* object, nothing declared.
NoRelay ==
    [loop |-> "init", connection |-> "none", conn_id |-> 0, declared |-> {},
     closed |-> {}, slept |-> FALSE]

\* init_rabbitmq (lines 55-71): a new BlockingConnection, its channel and
\* exchange_declare; on an exception sleep(5) and try again.
init_rabbitmq(r, up) ==
    IF up
    THEN [r EXCEPT !.loop = "declare", !.connection = "open", !.conn_id = r.conn_id + 1,
                   !.declared = {"exchange"}]
    ELSE [r EXCEPT !.slept = TRUE]

\* Lines 76-80 and 163: queue_declare, queue_bind, basic_qos, basic_consume;
\* an exception of any of them goes to the except clause of line 165.  slept
\* says whether the thread has slept since it last consumed.
declare_and_consume(r, up) ==
    IF up /\ r.connection = "open"
    THEN [r EXCEPT !.loop = "consuming", !.declared = Declarations, !.slept = FALSE]
    ELSE [r EXCEPT !.loop = "failed"]

\* Lines 165-171 without the close of line 168.
restart_without_close(r) ==
    [r EXCEPT !.loop = "init", !.connection = "none", !.declared = {}, !.slept = TRUE]

\* The except clause of lines 165-171: close the connection unless it is
\* closed already, sleep(5), and call consume_im_queue() again, which starts
\* with no connection object.
restart(r) ==
    [r EXCEPT !.loop = "init", !.connection = "none", !.declared = {},
              !.closed = r.closed \cup {r.conn_id}, !.slept = TRUE]

\* ------------------------------------------------------- LINE adapter
\* One push of the LINE adapter: the POST to the LINE API with its outcome.
Push(to, text, ok) == [chat_id |-> to, text |-> text, ok |-> ok]

\* IMLine.check_and_add_greeted_user, under greeted_users_lock: true, and
\* the chat id added, when the adapter has not greeted the chat yet.
check_and_add_greeted_user(greeted, chat_id) ==
    IF chat_id \notin greeted
    THEN [greeted |-> greeted \cup {chat_id}, ret |-> TRUE]
    ELSE [greeted |-> greeted, ret |-> FALSE]

\* f"Hi, {display_name or 'User'}\n"
LineGreetingOf(display_name) ==
    IF display_name \in {None, ""} THEN "Hi, User\n" ELSE "Hi, Alice\n"

\* IMLine.send_message(to, text, display_name): the greeting is decided and
\* the chat recorded before the POST; the POST's failure is caught and gives
\* False.
IMLine_send_message(greeted, to, text, display_name, postOk) ==
    LET g == check_and_add_greeted_user(greeted, to)
        greeting == IF g.ret THEN LineGreetingOf(display_name) ELSE ""
    IN [greeted |-> g.greeted,
        pushed |-> <<Push(to, Text("{}{}", greeting, <<text>>), postOk)>>,
        ret |-> postOk]

\* The webhook of the LINE adapter for one text message event (lines
\* 115-150): the text is stripped, a Device is built for the chat, the
\* parser is called and, when it reports no success, its message is sent to
\* the chat by the adapter (line 147); an exception of the Device or of the
\* parser gives the generic text (line 150).
webhook(s, greeted, text, chat_id, user_id, display_name, fails, pubRaises, postOk) ==
    LET message_text == strip(text)
        d == Device_init(s, DEVICE_ID, "line", chat_id, fails)
        o == IoTParse_Message(d.s, message_text, d.dev, chat_id, "line", user_id,
                              display_name, 0, pubRaises)
        Reply(t) == IMLine_send_message(greeted, chat_id, t, display_name, postOk)
    IN IF d.raised
       THEN [s |-> d.s, result |-> Result(FALSE, None, None, None), sent |-> <<>>,
             dispatch |-> NoDispatch,
             acq |-> d.acq, parsed |-> FALSE,
             greeted |-> Reply("An error occurred while processing your command. Please try again.").greeted,
             pushed |-> Reply("An error occurred while processing your command. Please try again.").pushed]
       ELSE IF ~o.result.success
       THEN [s |-> o.s, result |-> o.result, sent |-> o.sent, dispatch |-> o.dispatch,
             acq |-> d.acq, parsed |-> TRUE,
             greeted |-> Reply(o.result.message).greeted,
             pushed |-> Reply(o.result.message).pushed]
       ELSE [s |-> o.s, result |-> o.result, sent |-> o.sent, dispatch |-> o.dispatch,
             acq |-> d.acq, parsed |-> TRUE, greeted |-> greeted, pushed |-> <<>>]

\* with user_ids_lock / with greeted_users_lock: a threading.Lock is taken
\* only while no thread holds it, the holder itself included.
LockFreeAlways(holder) == TRUE
LockFree(holder) == holder = None

\* The lock check_and_add_greeted_user takes (line 40).
GreetingLockIsUserIds == "user_ids_lock"
GreetingLock == "greeted_users_lock"

\* list(user_ids): the user ids in the order the set iterates them.
ListOf(ids) ==
    {q \in UNION {[1..n -> ids] : n \in {Cardinality(ids)}} :
        \A i, j \in DOMAIN q : i # j => q[i] # q[j]}

\* ----------------------------------------------------------------- inputs
Chats == {"A", "B"}
Keys == Chats \cup {"default"}

\* Who sends: chat A is a LINE user chat with a display name, chat B a
\* Telegram chat whose adapter passes neither user id nor name.
Callers ==
    {[chat_id |-> "A", platform |-> "line", user_id |-> "u1", username |-> "Alice"],
     [chat_id |-> "B", platform |-> "telegram", user_id |-> None, username |-> None]}

\* Who builds a Device: the adapters for their chats, the status relay with
\* no chat id and the default platform "unknown".
Builders ==
    {[chat_id |-> "A", platform |-> "line"], [chat_id |-> "B", platform |-> "telegram"],
     [chat_id |-> None, platform |-> "unknown"]}

\* The device object the caller passes (config.DEVICE_ID, or any id a route
\* was called with).
DefaultDevices == {"esp32_light_001", "garage_door"}

Texts ==
    {<<"hi">>, <<SP, "Hi", TAB>>, <<"hello">>, <<"/START">>,
     <<"turn", SP, "on">>, <<SP, "Turn", SP, "ON", SP>>,
     <<"turn", SP, "on", SP, "garage_door">>,
     <<"TURN", SP, "ON", SP, TAB, "ESP32_LIGHT_001">>,
     <<"/enable", SP, "raspberrypi_fan_002">>,
     <<"turn", SP, "off">>, <<"turn", SP, "Off", SP, "esp32_fan_002", SP>>,
     <<"/disable", SP, "garage_door">>,
     <<"get", SP, "status">>, <<"/Status", SP, "raspberrypi_light_001">>,
     <<"/status", TAB, "Garage_Door">>,
     <<"/bind", SP, "esp32_light_001">>, <<SP, "/Bind", SP, "garage_door">>, <<"/bind">>,
     <<"foobar">>, <<"FooBar", SP>>, <<"turn", SP, SP, "on">>,
     <<"turn", SP, "on", SP, "foo-bar">>,
     <<"turn", SP, "on", SP, "esp32_light_001", SP, "esp32_fan_002">>}
    \cup {<<"turn", SP, "on", SP, d>> : d \in SupportedSet}

\* The /bind commands among the texts: a supported and an unsupported id.
BindTexts == {<<"/bind", SP, "esp32_light_001">>, <<SP, "/Bind", SP, "garage_door">>}

\* The routing keys of the messages on the status queue: well-formed keys of
\* the two chats, keys with fewer than 3 segments, another event, an empty
\* chat id segment, a platform that is neither telegram nor line.
RoutingKeys ==
    {<<"line", SLASH, "A", SLASH, "status_update">>,
     <<"telegram", SLASH, "B", SLASH, "status_update">>,
     <<"line", SLASH, "A">>, <<"status_update">>,
     <<"line", SLASH, "A", SLASH, "heartbeat">>,
     <<"line", SLASH, SLASH, "status_update">>,
     <<"sms", SLASH, "A", SLASH, "status_update">>}

\* The JSON object of a status event, with the keys it has.
StatusDoc(device_status, device_id, username) ==
    [device_status |-> device_status, device_id |-> device_id, user_id |-> Missing,
     username |-> username, bot_token |-> Missing]

\* The bodies on the status queue: not JSON, a JSON number, a full status
\* event, one with only device_status, one without device_status.
StatusBodies ==
    {[kind |-> "invalid", doc |-> StatusDoc(Missing, Missing, Missing)],
     [kind |-> "number", doc |-> StatusDoc(Missing, Missing, Missing)],
     [kind |-> "object", doc |-> StatusDoc("on", "esp32_light_001", "Alice")],
     [kind |-> "object", doc |-> StatusDoc("off", Missing, Missing)],
     [kind |-> "object", doc |-> StatusDoc(Missing, "esp32_light_001", "Alice")]}

\* The JSON object of a control message: the envelope Device.enable builds.
CommandDoc(command, device_id, platform) ==
    Envelope([device_id |-> device_id], command, "A", platform, "u1", "Alice", None)

\* The bodies on the queue of the executor: not JSON, a JSON number, and
\* envelopes for its own device, for another device, with a platform that
\* has no status queue, and with a command it does not know.
CommandBodies ==
    {[kind |-> "invalid", doc |-> CommandDoc(None, None, None)],
     [kind |-> "number", doc |-> CommandDoc(None, None, None)],
     [kind |-> "object", doc |-> CommandDoc("on", "esp32_light_001", "line")],
     [kind |-> "object", doc |-> CommandDoc("on", "esp32_light_001", "sms")],
     [kind |-> "object", doc |-> CommandDoc("on", "esp32_fan_002", "line")],
     [kind |-> "object", doc |-> CommandDoc("off", "esp32_light_001", "line")],
     [kind |-> "object", doc |-> CommandDoc("get_status", "esp32_light_001", "line")],
     [kind |-> "object", doc |-> CommandDoc("blink", "esp32_light_001", "line")],
     [kind |-> "object", doc |-> CommandDoc("on", "raspberrypi_light_001", "line")]}

\* Who save_binding is called for: a chat with the platform it is on; the
\* same chat id on another platform is another binding.
Binders ==
    {Binding("A", "line"), Binding("B", "telegram"), Binding("A", "telegram")}

\* The device save_binding is called for.
SaveDevices == {"esp32_light_001"}

\* The devices two threads save bindings for at the same time, and for whom.
RaceDevices == {"esp32_light_001", "esp32_fan_002"}
RaceBinders == {Binding("A", "line"), Binding("B", "telegram")}

\* What the LINE adapter sends itself: the message of a failed command
\* (webhook, line 147) and the text of a SendMsg request.
LineTexts == {"Invalid command", "hello"}

\* The display name the adapter has for the chat: a name, or none.
DisplayNames == {"Alice", None}

\* The documents put in place of bindings.json: no JSON; a well-formed one;
\* a value that is no list; an entry without platform; an entry without
\* chat_id followed by a well-formed device; a well-formed device followed
\* by a value that is no list; a list whose first entry lacks platform; the
\* empty object; three more well-formed ones.
Docs ==
    {InvalidDoc,
     ObjectDoc(<<Member("esp32_light_001", ListValue(<<Binding("A", "line")>>))>>),
     ObjectDoc(<<Member("esp32_light_001", StringValue)>>),
     ObjectDoc(<<Member("esp32_light_001", ListValue(<<Binding("A", Missing)>>))>>),
     ObjectDoc(<<Member("esp32_light_001", ListValue(<<Binding(Missing, "line")>>)),
                 Member("esp32_fan_002", ListValue(<<Binding("B", "telegram")>>))>>),
     ObjectDoc(<<Member("esp32_light_001", ListValue(<<Binding("A", "line")>>)),
                 Member("esp32_fan_002", StringValue)>>),
     ObjectDoc(<<Member("esp32_light_001",
                        ListValue(<<Binding("A", Missing), Binding("B", "telegram")>>))>>),
     ObjectDoc(<<>>),
     ObjectDoc(<<Member("esp32_light_001", ListValue(<<Binding("B", "telegram")>>))>>),
     ObjectDoc(<<Member("esp32_light_001",
                        ListValue(<<Binding("A", "line"), Binding("B", "telegram")>>))>>),
     ObjectDoc(<<Member("esp32_fan_002", ListValue(<<Binding("B", "telegram")>>)),
                 Member("esp32_light_001", ListValue(<<Binding("A", "line")>>))>>)}

\* ------------------------------------------------------------------ state
VARIABLES
    client_pool,   \* IoTQbroker.client_pool: chat key -> client id
    clients,       \* client id -> [connected, started]
    nextClient,    \* chat key -> serial of the next client object
    bindings,      \* IoTQbroker.bindings: device id -> set of chat ids
    pc,            \* "idle", or "returned" when a call has just returned
    req,           \* the call that returned and what the broker did during it
    result,        \* what the call returned (IoTParse_Message, save_binding)
    sent,          \* the IMQbroker.send_message calls of the call, in order
    dispatch,      \* the Device.enable/disable/get_status call of the call
    acq,           \* the MessageAPI construction of the call
    greeted_users, \* IMQbroker.greeted_users: the chat ids the relay has greeted
    cached_bindings, \* config._cached_bindings: device id -> list of bindings
    bindings_file, \* the bindings document on disk, same shape
    settle,        \* how the consumer settled the message of the call
    trace,         \* the calls the relay's callback made for the message, in order
    executor,      \* what a device executor did for the message of the call
    line_greeted,  \* IMLine.greeted_users: the chat ids the LINE adapter has greeted
    pushed,        \* the pushes of the LINE adapter during the call, in order
    relay,         \* the relay thread: where consume_im_queue is, and its connection
    rabbit_up,     \* whether the RabbitMQ broker is reachable
    devices,       \* the devices list of each virtual device: device id -> state
    bindings_doc,  \* the document somebody put in place of bindings.json, or NoDoc
    doc_newer,     \* whether the mtime of the file is above _bindings_last_modified
    loaded,        \* what the load_bindings call of the step did
    savers,        \* where each thread is in save_binding, and its bindings_data
    heap,          \* the list objects of the bindings dicts: their entries
    cache_refs,    \* the list object _cached_bindings holds for each device id
    inits,         \* where each thread is in MessageAPI.__init__, and its self.client
    user_ids,      \* IMLine.user_ids: the LINE user ids seen by the webhook
    locks,         \* IMLine.user_ids_lock, greeted_users_lock: the holding thread, or None
    workers,       \* where each request thread of the LINE adapter is
    posted         \* the POSTs of the LINE adapter's request threads, in order

\* The state of the binding store of config.py.
registryVars == <<cached_bindings, bindings_file>>
\* The state a message consumer adds: the greeted set and the per-message
\* record of the settlement and of the executor's device calls.
consumerVars == <<greeted_users, settle, executor, trace>>
\* The state of the LINE adapter's own send path.
adapterVars == <<line_greeted, pushed>>
\* The consumer loop of the relay and the broker it connects to.
loopVars == <<relay, rabbit_up>>
\* The devices behind the executors.
deviceVars == <<devices>>
\* The bindings file as load_bindings finds it, and the call's outcome.
loaderVars == <<bindings_doc, doc_newer, loaded>>
\* The threads in save_binding and the objects they share.
saverVars == <<savers, heap, cache_refs>>
\* The threads in MessageAPI.__init__.
initVars == <<inits>>
\* The request threads of the LINE adapter and what they share besides the
\* greeted set.
threadVars == <<user_ids, locks, workers, posted>>

vars == <<client_pool, clients, nextClient, bindings, pc, req, result, sent, dispatch, acq,
          greeted_users, cached_bindings, bindings_file, settle, executor, trace,
          line_greeted, pushed, relay, rabbit_up, devices,
          bindings_doc, doc_newer, loaded, savers, heap, cache_refs, inits,
          user_ids, locks, workers, posted>>

Shared ==
    [client_pool |-> client_pool, clients |-> clients, nextClient |-> nextClient,
     bindings |-> bindings]

\* No message body (the call consumed no message).
NoBody == [kind |-> "none", doc |-> <<>>]

NoReq ==
    [op |-> "none", text |-> <<>>, device_id |-> None, chat_id |-> None,
     platform |-> None, user_id |-> None, username |-> None,
     fails |-> 0, pubRaises |-> FALSE, body |-> NoBody]

NoResult == Result(FALSE, None, None, None)

\* A thread that is in no MessageAPI.__init__ call.
IdleInit == [pc |-> "idle", key |-> None, client |-> <<None, 0>>, raised |-> FALSE]

\* A request thread of the LINE adapter that is in no call.  op is the
\* function the thread was started for, to the chat of the send_message call
\* it is in, queue what is left of list(user_ids) in send_all_message,
\* greeting whether check_and_add_greeted_user returned True, waits the lock
\* the thread is blocked on.
IdleWorker ==
    [pc |-> "idle", op |-> None, to |-> None, queue |-> <<>>, greeting |-> FALSE,
     waits |-> None, calls |-> 0]

\* No load_bindings call in the step.
NoLoad == [called |-> FALSE, ret |-> <<>>, raised |-> FALSE, locks |-> <<>>]


Init ==
    /\ client_pool = <<>>
    /\ clients = <<>>
    /\ nextClient = [k \in Keys |-> 1]
    /\ bindings = <<>>
    /\ pc = "idle"
    /\ req = NoReq
    /\ result = NoResult
    /\ sent = <<>>
    /\ dispatch = NoDispatch
    /\ acq = NoAcq
    /\ greeted_users = {}
    /\ cached_bindings = <<>>
    /\ bindings_file = <<>>
    /\ settle = NoSettle
    /\ trace = <<>>
    /\ executor = NoExecutor
    /\ line_greeted = {}
    /\ pushed = <<>>
    /\ relay = NoRelay
    /\ rabbit_up = TRUE
    /\ devices = [e \in Executors |-> (e.device_id :> "off")]
    /\ bindings_doc = NoDoc
    /\ doc_newer = FALSE
    /\ loaded = NoLoad
    /\ savers = [t \in Threads |-> IdleSaver]
    /\ heap = <<>>
    /\ cache_refs = <<>>
    /\ inits = [t \in Threads |-> IdleInit]
    /\ user_ids = {}
    /\ locks = [l \in {"user_ids_lock", "greeted_users_lock"} |-> None]
    /\ workers = [t \in Threads |-> IdleWorker]
    /\ posted = <<>>

\* How many connection attempts the broker refuses during a call; it matters
\* only to a call that may have to connect.
BrokerRefusals(chat_id) ==
    IF PoolKey(chat_id) \in DOMAIN client_pool THEN {0} ELSE 0..MaxFails

\* A chat adapter calls IoTParse_Message(text, device, chat_id, platform, ...)
\* with one of the texts.
ParseCall(texts) ==
    /\ pc = "idle"
    /\ \E text \in texts, caller \in Callers, d \in DefaultDevices, pubRaises \in BOOLEAN :
       \E fails \in BrokerRefusals(caller.chat_id) :
         LET platform == caller.platform
             o == IoTParse_Message(Shared, text, [device_id |-> d], caller.chat_id,
                                   platform, caller.user_id, caller.username,
                                   fails, pubRaises)
         IN /\ nextClient[PoolKey(caller.chat_id)] <= MaxClients
            /\ fails > 0 => (o.acq.made /\ ~o.acq.reused)
            /\ pubRaises => o.dispatch.made
            /\ client_pool' = o.s.client_pool
            /\ clients' = o.s.clients
            /\ nextClient' = o.s.nextClient
            /\ bindings' = o.s.bindings
            /\ result' = o.result
            /\ sent' = o.sent
            /\ dispatch' = o.dispatch
            /\ acq' = o.acq
            /\ req' = [op |-> "parse", text |-> text, device_id |-> d,
                       chat_id |-> caller.chat_id, platform |-> platform,
                       user_id |-> caller.user_id, username |-> caller.username,
                       fails |-> fails, pubRaises |-> pubRaises, body |-> NoBody]
            /\ pc' = "returned"
            /\ UNCHANGED <<adapterVars, loopVars, deviceVars, saverVars, initVars, threadVars, loaderVars, registryVars, consumerVars>>

\* A chat adapter passes a message text to the parser.
ParseMessage == ParseCall(Texts)

\* A user sends a /bind command.
BindCommand == ParseCall(BindTexts)

\* A caller builds a Device (the webhook handlers for their chat, the status
\* relay with no chat id): Device.__init__ and with it MessageAPI.__init__.
NewDevice ==
    /\ pc = "idle"
    /\ \E b \in Builders, d \in DefaultDevices :
       \E fails \in BrokerRefusals(b.chat_id) :
         LET chat_id == b.chat_id
             platform == b.platform
             o == Device_init(Shared, d, platform, chat_id, fails)
         IN /\ nextClient[PoolKey(chat_id)] <= MaxClients
            /\ fails > 0 => ~o.acq.reused
            /\ client_pool' = o.s.client_pool
            /\ clients' = o.s.clients
            /\ nextClient' = o.s.nextClient
            /\ acq' = o.acq
            /\ req' = [NoReq EXCEPT !.op = "device", !.device_id = d, !.chat_id = chat_id,
                                    !.platform = platform, !.fails = fails]
            /\ pc' = "returned"
            /\ UNCHANGED <<adapterVars, loopVars, deviceVars, saverVars, initVars, threadVars, loaderVars, bindings, result, sent, dispatch, registryVars, consumerVars>>

\* The caller takes the return value; the next call can start.
Return ==
    /\ pc = "returned"
    /\ pc' = "idle"
    /\ req' = NoReq
    /\ result' = NoResult
    /\ sent' = <<>>
    /\ dispatch' = NoDispatch
    /\ acq' = NoAcq
    /\ settle' = NoSettle
    /\ trace' = <<>>
    /\ executor' = NoExecutor
    /\ pushed' = <<>>
    /\ loaded' = NoLoad
    /\ UNCHANGED <<line_greeted, loopVars, deviceVars, saverVars, initVars, threadVars, bindings_doc, doc_newer,
                   client_pool, clients, nextClient, bindings, greeted_users, registryVars>>

\* The network drops the connection of a connected client (on_disconnect).
ConnectionLost ==
    /\ pc = "idle"
    /\ \E c \in DOMAIN clients :
         /\ clients[c].connected
         /\ clients' = [clients EXCEPT ![c].connected = FALSE]
    /\ UNCHANGED <<adapterVars, loopVars, deviceVars, saverVars, initVars, threadVars, loaderVars, client_pool, nextClient, bindings, pc, req, result, sent, dispatch, acq,
                   registryVars, consumerVars>>

\* The network loop started by loop_start() reconnects a client it lost; a
\* client whose connect() never succeeded has no loop.
AutoReconnect ==
    /\ pc = "idle"
    /\ \E c \in DOMAIN clients :
         /\ clients[c].started /\ ~clients[c].connected
         /\ clients' = [clients EXCEPT ![c].connected = TRUE]
    /\ UNCHANGED <<adapterVars, loopVars, deviceVars, saverVars, initVars, threadVars, loaderVars, client_pool, nextClient, bindings, pc, req, result, sent, dispatch, acq,
                   registryVars, consumerVars>>

\* A caller saves a binding in the bindings document.  The load_bindings
\* call of line 181 reads the file first when somebody has replaced it; the
\* write of line 193 replaces the file.
SaveBinding ==
    /\ pc = "idle"
    /\ \E device_id \in SaveDevices, b \in Binders, writeFails \in BOOLEAN :
         LET l == load_bindings_file(cached_bindings, bindings_doc, doc_newer)
             o == save_binding([cached_bindings |-> l.cached,
                                bindings_file |-> bindings_file],
                               device_id, b.chat_id, b.platform, writeFails)
         IN /\ writeFails => ~o.ret
            /\ cached_bindings' = o.r.cached_bindings
            /\ bindings_file' = o.r.bindings_file
            /\ bindings_doc' = IF o.log = "Saved binding" THEN NoDoc ELSE bindings_doc
            /\ doc_newer' = FALSE
            /\ result' = Result(o.ret, None, device_id, o.log)
            /\ req' = [NoReq EXCEPT !.op = "save", !.device_id = device_id,
                                    !.chat_id = b.chat_id, !.platform = b.platform,
                                    !.fails = IF writeFails THEN 1 ELSE 0]
            /\ pc' = "returned"
    /\ UNCHANGED <<adapterVars, loopVars, deviceVars, saverVars, initVars, threadVars, loaded, client_pool, clients,
                   nextClient, bindings, sent, dispatch, acq, consumerVars>>

\* The status relay consumes one message of the status queue: callback.
ConsumeStatus ==
    /\ pc = "idle"
    /\ \E routing_key \in RoutingKeys, body \in StatusBodies :
       \E fails \in BrokerRefusals(None) :
         LET o == callback(Shared, greeted_users, routing_key, body, fails)
         IN /\ nextClient[PoolKey(None)] <= MaxClients
            /\ fails > 0 => (o.acq.made /\ ~o.acq.reused)
            /\ client_pool' = o.s.client_pool
            /\ clients' = o.s.clients
            /\ nextClient' = o.s.nextClient
            /\ bindings' = o.s.bindings
            /\ greeted_users' = o.greeted
            /\ sent' = o.sent
            /\ settle' = o.settle
            /\ trace' = o.trace
            /\ acq' = o.acq
            /\ req' = [NoReq EXCEPT !.op = "status", !.text = routing_key,
                                    !.body = body, !.fails = fails]
            /\ pc' = "returned"
    /\ UNCHANGED <<adapterVars, loopVars, deviceVars, saverVars, initVars, threadVars, loaderVars, result, dispatch, executor, registryVars>>

\* A device executor consumes one message of its queue:
\* on_rabbitmq_message.  sigOk, http and pubFails are what the signature,
\* the request to the device and the status queue do during the call; each
\* is chosen only where the handler gets that far.
ConsumeCommand ==
    /\ pc = "idle"
    /\ \E e \in Executors, body \in CommandBodies, sigOk \in BOOLEAN,
          http \in {"200", "403", "500", "timeout", "raise"}, pubFails \in 0..MaxPubFails :
         LET o == on_rabbitmq_message(e, body, sigOk, http, devices[e], pubFails)
         IN /\ ~sigOk => o # on_rabbitmq_message(e, body, TRUE, http, devices[e], pubFails)
            /\ http # "200"
                 => o # on_rabbitmq_message(e, body, sigOk, "200", devices[e], pubFails)
            /\ pubFails > 0
                 => o # on_rabbitmq_message(e, body, sigOk, http, devices[e], 0)
            /\ settle' = o.settle
            /\ executor' = o.executor
            /\ devices' = [devices EXCEPT ![e] = o.devices]
            /\ req' = [NoReq EXCEPT !.op = "command", !.body = body,
                                    !.device_id = e.device_id, !.fails = pubFails]
            /\ pc' = "returned"
    /\ UNCHANGED <<adapterVars, loopVars, loaderVars, saverVars, initVars, threadVars, client_pool, clients, nextClient, bindings, result,
                   sent, dispatch, acq, greeted_users, trace, registryVars>>

\* The LINE adapter sends a message to a chat: IMLine.send_message, called
\* by the webhook for a failed command and by the SendMsg routes.
LineSendMessage ==
    /\ pc = "idle"
    /\ \E to \in Chats, text \in LineTexts, display_name \in DisplayNames,
          postOk \in BOOLEAN :
         LET o == IMLine_send_message(line_greeted, to, text, display_name, postOk)
         IN /\ line_greeted' = o.greeted
            /\ pushed' = o.pushed
            /\ result' = Result(o.ret, None, None, None)
            /\ req' = [NoReq EXCEPT !.op = "push", !.chat_id = to, !.platform = "line",
                                    !.username = display_name,
                                    !.fails = IF postOk THEN 0 ELSE 1]
            /\ pc' = "returned"
    /\ UNCHANGED <<client_pool, clients, nextClient, bindings, sent, dispatch, acq,
                   registryVars, consumerVars, loopVars, deviceVars, loaderVars,
                   saverVars, initVars, threadVars>>

\* LINE delivers one text message of a chat to the webhook of the adapter.
LineWebhook ==
    /\ pc = "idle"
    /\ \E text \in Texts, chat_id \in Chats, display_name \in DisplayNames,
          pubRaises \in BOOLEAN, postOk \in BOOLEAN :
       \E fails \in BrokerRefusals(chat_id) :
         \E o \in {webhook(Shared, line_greeted, text, chat_id, "u1", display_name,
                           fails, pubRaises, postOk)} :
            /\ nextClient[PoolKey(chat_id)] <= MaxClients
            /\ pubRaises => o.dispatch.made
            /\ ~postOk => o.pushed # <<>>
            /\ client_pool' = o.s.client_pool
            /\ clients' = o.s.clients
            /\ nextClient' = o.s.nextClient
            /\ bindings' = o.s.bindings
            /\ result' = o.result
            /\ sent' = o.sent
            /\ dispatch' = o.dispatch
            /\ acq' = o.acq
            /\ line_greeted' = o.greeted
            /\ pushed' = o.pushed
            /\ req' = [op |-> "webhook", text |-> text, device_id |-> DEVICE_ID,
                       chat_id |-> chat_id, platform |-> "line", user_id |-> "u1",
                       username |-> display_name, fails |-> fails,
                       pubRaises |-> pubRaises, body |-> NoBody]
            /\ pc' = "returned"
    /\ UNCHANGED <<registryVars, consumerVars, loopVars, deviceVars, loaderVars,
                   saverVars, initVars, threadVars>>

WebhookNext == LineWebhook \/ Return

WebhookSpec == Init /\ [][WebhookNext]_vars

\* Everything but the relay thread and the broker.
callVars ==
    <<client_pool, clients, nextClient, bindings, pc, req, result, sent, dispatch, acq,
      registryVars, consumerVars, adapterVars, deviceVars, loaderVars,
      saverVars, initVars, threadVars>>

\* The relay thread connects: init_rabbitmq.
InitRabbitmq ==
    /\ relay.loop = "init"
    /\ rabbit_up => relay.conn_id < MaxConnections
    /\ relay' = init_rabbitmq(relay, rabbit_up)
    /\ UNCHANGED <<rabbit_up, callVars>>

\* The relay thread declares the queue and the binding and starts consuming.
DeclareAndConsume ==
    /\ relay.loop = "declare"
    /\ relay' = declare_and_consume(relay, rabbit_up)
    /\ UNCHANGED <<rabbit_up, callVars>>

\* start_consuming delivers one message of the queue to the callback.
Deliver ==
    /\ relay.loop = "consuming"
    /\ relay.connection = "open"
    /\ ConsumeStatus

\* start_consuming raises: the connection to the broker is lost.
ConsumingFails ==
    /\ relay.loop = "consuming"
    /\ relay.connection = "lost"
    /\ pc = "idle"
    /\ relay' = [relay EXCEPT !.loop = "failed"]
    /\ UNCHANGED <<rabbit_up, callVars>>

\* The except clause of consume_im_queue: close, sleep, start again.
Restart ==
    /\ relay.loop = "failed"
    /\ relay' = restart(relay)
    /\ UNCHANGED <<rabbit_up, callVars>>

\* The broker goes away; an open connection to it is lost.
RabbitDown ==
    /\ rabbit_up
    /\ relay.conn_id < MaxConnections
    /\ rabbit_up' = FALSE
    /\ relay' = IF relay.connection = "open"
                THEN [relay EXCEPT !.connection = "lost"] ELSE relay
    /\ UNCHANGED callVars

\* The broker is back.
RabbitUp ==
    /\ ~rabbit_up
    /\ rabbit_up' = TRUE
    /\ UNCHANGED <<relay, callVars>>

\* Somebody replaces bindings.json: the file has a new content and a newer
\* mtime.
EditBindings ==
    /\ pc = "idle"
    /\ \E doc \in Docs : bindings_doc' = doc
    /\ doc_newer' = TRUE
    /\ UNCHANGED <<client_pool, clients, nextClient, bindings, pc, req, result, sent, dispatch,
                   acq, registryVars, consumerVars, adapterVars, loopVars, deviceVars, loaded,
                   saverVars, initVars, threadVars>>

\* A caller (the polling thread, a SendGroupMessage route) calls
\* load_bindings; it leaves _bindings_last_modified at the mtime of the file.
LoadBindings ==
    /\ pc = "idle"
    /\ LET o == load_bindings_file(cached_bindings, bindings_doc, doc_newer)
       IN /\ cached_bindings' = o.cached
          /\ loaded' = [called |-> TRUE, ret |-> o.ret, raised |-> o.raised,
                        locks |-> o.locks]
    /\ doc_newer' = FALSE
    /\ req' = [NoReq EXCEPT !.op = "load"]
    /\ pc' = "returned"
    /\ UNCHANGED <<client_pool, clients, nextClient, bindings, result, sent, dispatch, acq,
                   bindings_file, bindings_doc, consumerVars, adapterVars, loopVars,
                   deviceVars, saverVars, initVars, threadVars>>

\* What the steps of a thread in save_binding leave alone.
otherVars ==
    <<client_pool, clients, nextClient, bindings, pc, req, result, sent, dispatch, acq,
      consumerVars, adapterVars, loopVars, deviceVars, loaderVars, initVars, threadVars>>

\* Line 181: a thread enters save_binding and takes load_bindings' shallow
\* copy of the cache: a dict of its own with the list objects of the cache.
SaverLoad(t) ==
    /\ savers[t].pc = "idle"
    /\ savers[t].calls < MaxCalls
    /\ \E device_id \in RaceDevices, b \in RaceBinders :
         savers' = [savers EXCEPT ![t] = [pc |-> "loaded", device_id |-> device_id,
                                          binding |-> b, data |-> cache_refs,
                                          ret |-> FALSE, calls |-> @.calls + 1]]
    /\ UNCHANGED <<heap, cache_refs, registryVars, otherVars>>

\* Lines 182-189: a list for a new device, and the existence check, which
\* returns True for a binding that is in the list.
SaverCheck(t) ==
    /\ savers[t].pc = "loaded"
    /\ LET me == savers[t]
           w == WithList(me.data, heap, me.device_id)
           exists == CountBinding(w.heap[w.data[me.device_id]], me.binding) > 0
       IN /\ heap' = w.heap
          /\ savers' = [savers EXCEPT ![t].data = w.data,
                                      ![t].pc = IF exists THEN "done" ELSE "checked",
                                      ![t].ret = exists]
    /\ UNCHANGED <<cache_refs, registryVars, otherVars>>

\* Line 191: the append to the list object, which is the list of the cache
\* when the cache had one for the device.
SaverAppend(t) ==
    /\ savers[t].pc = "checked"
    /\ LET me == savers[t]
       IN heap' = [heap EXCEPT ![me.data[me.device_id]] = Append(@, me.binding)]
    /\ savers' = [savers EXCEPT ![t].pc = "appended"]
    /\ cached_bindings' = Deref(cache_refs, heap')
    /\ UNCHANGED <<cache_refs, bindings_file, otherVars>>

\* Lines 192-199, under config_lock: the thread writes its dict to the file
\* and makes it the cache.
SaverWrite(t) ==
    /\ savers[t].pc = "appended"
    /\ bindings_file' = Deref(savers[t].data, heap)
    /\ cache_refs' = savers[t].data
    /\ cached_bindings' = Deref(savers[t].data, heap)
    /\ savers' = [savers EXCEPT ![t].pc = "done", ![t].ret = TRUE]
    /\ UNCHANGED <<heap, otherVars>>

\* The caller of the thread takes the return value.
SaverReturn(t) ==
    /\ savers[t].pc = "done"
    /\ savers' = [savers EXCEPT ![t] = [IdleSaver EXCEPT !.calls = savers[t].calls]]
    /\ UNCHANGED <<heap, cache_refs, registryVars, otherVars>>

\* What the steps of a thread in MessageAPI.__init__ leave alone.
poolOtherVars ==
    <<bindings, pc, req, result, sent, dispatch, acq, registryVars, consumerVars,
      adapterVars, loopVars, deviceVars, loaderVars, saverVars, threadVars>>

\* Line 132: a request thread enters MessageAPI.__init__ for a chat and
\* looks the key up in client_pool; a pooled client becomes self.client.
InitCheck(t) ==
    /\ inits[t].pc = "idle"
    /\ \E chat_id \in Chats \cup {None} :
         LET key == PoolKey(chat_id)
         IN inits' = [inits EXCEPT ![t] =
                         IF key \in DOMAIN client_pool
                         THEN [pc |-> "done", key |-> key, client |-> client_pool[key],
                               raised |-> FALSE]
                         ELSE [pc |-> "create", key |-> key, client |-> <<None, 0>>,
                               raised |-> FALSE]]
    /\ UNCHANGED <<client_pool, clients, nextClient, poolOtherVars>>

\* Lines 137-142: the thread makes a client and stores it in the pool under
\* the key, whatever the pool holds for the key by now.
InitStore(t) ==
    /\ inits[t].pc = "create"
    /\ LET key == inits[t].key
           c == <<key, nextClient[key]>>
       IN /\ nextClient[key] <= MaxClients
          /\ clients' = (c :> [connected |-> FALSE, started |-> FALSE]) @@ clients
          /\ client_pool' = (key :> c) @@ client_pool
          /\ nextClient' = [nextClient EXCEPT ![key] = @ + 1]
          /\ inits' = [inits EXCEPT ![t].pc = "connect", ![t].client = c]
    /\ UNCHANGED poolOtherVars

\* Line 144: self.connect() on the client the thread made; it connects, or
\* raises after the last attempt.
InitConnect(t) ==
    /\ inits[t].pc = "connect"
    /\ \E fails \in {0, max_retries} :
         LET r == connect(fails)
         IN /\ clients' = [clients EXCEPT ![inits[t].client] =
                              [connected |-> r.connected, started |-> r.connected]]
            /\ inits' = [inits EXCEPT ![t].pc = "done", ![t].raised = r.raised]
    /\ UNCHANGED <<client_pool, nextClient, poolOtherVars>>

\* The constructor returns (or raises) to its caller.
InitReturn(t) ==
    /\ inits[t].pc = "done"
    /\ inits' = [inits EXCEPT ![t] = IdleInit]
    /\ UNCHANGED <<client_pool, clients, nextClient, poolOtherVars>>

Next == ParseMessage \/ NewDevice \/ Return \/ ConnectionLost \/ AutoReconnect

Spec == Init /\ [][Next]_vars

\* The consuming side: the status relay and a device executor, with the
\* /bind commands that fill the registry the relay fans out to.
ConsumerNext == BindCommand \/ ConsumeStatus \/ ConsumeCommand \/ Return

ConsumerSpec == Init /\ [][ConsumerNext]_vars

\* The binding registries: the in-memory one /bind fills and the document
\* save_binding fills.
RegistryNext == BindCommand \/ SaveBinding \/ Return

RegistrySpec == Init /\ [][RegistryNext]_vars

\* The two senders of greetings in the LINE process: the status relay and
\* the adapter's own send path.
GreetingNext == ConsumeStatus \/ LineSendMessage \/ Return

GreetingSpec == Init /\ [][GreetingNext]_vars

\* Two threads in MessageAPI.__init__, statement by statement.
PoolNext ==
    \E t \in Threads : InitCheck(t) \/ InitStore(t) \/ InitConnect(t) \/ InitReturn(t)

PoolSpec == Init /\ [][PoolNext]_vars

\* Two threads in save_binding, statement by statement.
SaverNext ==
    \E t \in Threads :
       SaverLoad(t) \/ SaverCheck(t) \/ SaverAppend(t) \/ SaverWrite(t) \/ SaverReturn(t)

SaverSpec == Init /\ [][SaverNext]_vars

\* The bindings file under edits from outside, and the calls that read it.
LoaderNext == EditBindings \/ LoadBindings \/ SaveBinding \/ Return

LoaderSpec == Init /\ [][LoaderNext]_vars

\* The relay thread as it runs: connect, declare, consume, and start again
\* when the broker goes away.
RelayNext ==
    \/ InitRabbitmq \/ DeclareAndConsume \/ Deliver \/ ConsumingFails \/ Restart
    \/ RabbitDown \/ RabbitUp \/ Return

RelaySpec == Init /\ [][RelayNext]_vars

\* The thread keeps running (it is never starved), and a callback returns.
RelayFairSpec ==
    /\ RelaySpec
    /\ WF_vars(InitRabbitmq) /\ WF_vars(DeclareAndConsume) /\ WF_vars(ConsumingFails)
    /\ WF_vars(Restart) /\ WF_vars(Return)

\* ---------------------------------------- request threads of the LINE adapter
\* app.run(threaded=True): each request runs in a thread of its own.  The
\* functions are followed statement by statement where they take a lock.
lineOtherVars ==
    <<client_pool, clients, nextClient, bindings, pc, req, result, sent, dispatch, acq,
      registryVars, consumerVars, pushed, loopVars, deviceVars, loaderVars, saverVars,
      initVars>>

\* A request thread enters add_user_id (webhook, line 133), send_message
\* (the webhook and the SendMsg routes) or send_all_message (a function of
\* the module that no route calls) and reaches the function's first lock.
WorkerCall(t) ==
    /\ workers[t].pc = "idle"
    /\ workers[t].calls < MaxCalls
    /\ \/ \E uid \in Chats :
            workers' = [workers EXCEPT ![t] = [@ EXCEPT !.pc = "wait", !.op = "add_user_id",
                                                        !.to = uid,
                                                        !.waits = "user_ids_lock"]]
       \/ \E to \in Chats :
            workers' = [workers EXCEPT ![t] = [@ EXCEPT !.pc = "wait", !.op = "send_message",
                                                        !.to = to, !.waits = GreetingLock]]
       \/ workers' = [workers EXCEPT ![t] = [@ EXCEPT !.pc = "wait",
                                                      !.op = "send_all_message",
                                                      !.waits = "user_ids_lock"]]
    /\ UNCHANGED <<user_ids, locks, posted, line_greeted, lineOtherVars>>

\* The with statement the thread is blocked on gets its lock.
Acquire(t) ==
    /\ workers[t].pc = "wait"
    /\ LockFree(locks[workers[t].waits])
    /\ locks' = [locks EXCEPT ![workers[t].waits] = t]
    /\ workers' = [workers EXCEPT ![t] =
                     [@ EXCEPT !.waits = None,
                               !.pc = IF workers[t].op = "add_user_id" THEN "add"
                                      ELSE IF /\ workers[t].op = "send_all_message"
                                              /\ workers[t].to = None
                                      THEN "list" ELSE "check"]]
    /\ UNCHANGED <<user_ids, posted, line_greeted, lineOtherVars>>

\* add_user_id, lines 36-37, and the end of its with block.
AddUserId(t) ==
    /\ workers[t].pc = "add"
    /\ user_ids' = user_ids \cup {workers[t].to}
    /\ locks' = [locks EXCEPT !["user_ids_lock"] = None]
    /\ workers' = [workers EXCEPT ![t] = [IdleWorker EXCEPT !.calls = workers[t].calls + 1]]
    /\ UNCHANGED <<posted, line_greeted, lineOtherVars>>

\* send_all_message, line 92: list(user_ids), under user_ids_lock.
ListUsers(t) ==
    /\ workers[t].pc = "list"
    /\ \E q \in ListOf(user_ids) :
         workers' = [workers EXCEPT ![t] = [@ EXCEPT !.pc = "loop", !.queue = q]]
    /\ UNCHANGED <<user_ids, locks, posted, line_greeted, lineOtherVars>>

\* send_all_message, lines 92-93: the next uid is passed to send_message,
\* with user_ids_lock still held; after the last one the with block ends.
LoopNext(t) ==
    /\ workers[t].pc = "loop"
    /\ IF workers[t].queue = <<>>
       THEN /\ locks' = [locks EXCEPT !["user_ids_lock"] = None]
            /\ workers' = [workers EXCEPT ![t] =
                             [IdleWorker EXCEPT !.calls = workers[t].calls + 1]]
       ELSE /\ locks' = locks
            /\ workers' = [workers EXCEPT ![t] =
                             [@ EXCEPT !.pc = "wait", !.to = Head(workers[t].queue),
                                       !.queue = Tail(workers[t].queue),
                                       !.waits = GreetingLock]]
    /\ UNCHANGED <<user_ids, posted, line_greeted, lineOtherVars>>

\* check_and_add_greeted_user, line 41: the membership test; a chat that is
\* in the set gives False and the with block ends.
CheckGreeted(t) ==
    /\ workers[t].pc = "check"
    /\ IF workers[t].to \notin line_greeted
       THEN /\ workers' = [workers EXCEPT ![t] = [@ EXCEPT !.pc = "greet", !.greeting = TRUE]]
            /\ locks' = locks
       ELSE /\ workers' = [workers EXCEPT ![t] = [@ EXCEPT !.pc = "post", !.greeting = FALSE]]
            /\ locks' = [locks EXCEPT ![GreetingLock] = None]
    /\ UNCHANGED <<user_ids, posted, line_greeted, lineOtherVars>>

\* check_and_add_greeted_user, lines 42-43: the chat is added, True is
\* returned and the with block ends.
AddGreeted(t) ==
    /\ workers[t].pc = "greet"
    /\ line_greeted' = line_greeted \cup {workers[t].to}
    /\ locks' = [locks EXCEPT ![GreetingLock] = None]
    /\ workers' = [workers EXCEPT ![t] = [@ EXCEPT !.pc = "post"]]
    /\ UNCHANGED <<user_ids, posted, lineOtherVars>>

\* send_message, lines 78-87: the text is built and POSTed; send_message
\* returns to its route or to the loop of send_all_message.
Post(t) ==
    /\ workers[t].pc = "post"
    /\ \E ok \in BOOLEAN :
         posted' = Append(posted,
                          Push(workers[t].to,
                               Text("{}{}",
                                    IF workers[t].greeting THEN LineGreetingOf(None) ELSE "",
                                    <<"hello">>),
                               ok))
    /\ workers' = [workers EXCEPT ![t] =
                     IF @.op = "send_all_message"
                     THEN [@ EXCEPT !.pc = "loop", !.to = None, !.greeting = FALSE]
                     ELSE [IdleWorker EXCEPT !.calls = workers[t].calls + 1]]
    /\ UNCHANGED <<user_ids, locks, line_greeted, lineOtherVars>>

ThreadNext ==
    \E t \in Threads :
       \/ WorkerCall(t)
       \/ Acquire(t)
       \/ AddUserId(t)
       \/ ListUsers(t)
       \/ LoopNext(t)
       \/ CheckGreeted(t)
       \/ AddGreeted(t)
       \/ Post(t)

ThreadSpec == Init /\ [][ThreadNext]_vars

\* ----------------------------------------------------------------- claims
Returned(op) == pc = "returned" /\ req.op = op

\* The publish calls of the call that has just returned.
Published == {dispatch.calls[i] : i \in 1..Len(dispatch.calls)}

\* Texts of the input set that carry an explicit device token which, as the
\* parser reads it (lower-cased), is not a supported device.
UnsupportedTokenTexts ==
    {<<"turn", SP, "on", SP, "garage_door">>, <<"/disable", SP, "garage_door">>,
     <<"/status", TAB, "Garage_Door">>, <<SP, "/Bind", SP, "garage_door">>}

\* C1: "turn on D" for a supported D whose publish reaches the broker returns
\* success, action Enable, device_id D, and the envelope names D, whatever
\* device the caller passed; a text with an explicit unsupported token
\* returns failure, publishes nothing, and the one message sent to the user
\* lists every supported device id.
C1_TurnOnSupportedAndRejectUnsupported ==
    Returned("parse") =>
        /\ \A D \in SupportedSet :
             (/\ req.text = <<"turn", SP, "on", SP, D>>
              /\ dispatch.made
              /\ \A c \in Published : c.outcome = "ok")
             => /\ result = Result(TRUE, "Enable", D, None)
                /\ Len(dispatch.calls) = 1
                /\ dispatch.calls[1].message.device_id = D
                /\ dispatch.calls[1].message.command = "on"
        /\ req.text \in UnsupportedTokenTexts
             => /\ result.success = FALSE
                /\ result.message = "Invalid device ID"
                /\ ~dispatch.made
                /\ Len(sent) = 1
                /\ sent[1].chat_id = req.chat_id
                /\ sent[1].text.arg = "garage_door"
                /\ \A d \in SupportedSet :
                     \E i \in 1..Len(sent[1].text.list) : sent[1].text.list[i] = d

C1_Witness ==
    /\ Returned("parse")
    /\ req.text = <<"turn", SP, "on", SP, "raspberrypi_fan_002">>
    /\ req.device_id = "garage_door"
    /\ dispatch.made /\ dispatch.calls[1].outcome = "ok"
    /\ result.success

\* C2: every control envelope published by IoTParse_Message names a
\* supported device, whether the id was an explicit token or the device the
\* caller passed.
C2_PublishedDeviceSupported ==
    \A c \in Published : c.message.device_id \in SupportedSet

C2_Witness ==
    /\ Returned("parse")
    /\ req.text = <<"turn", SP, "off">>
    /\ dispatch.made
    /\ dispatch.calls[1].message.device_id = req.device_id

\* Texts of the input set that match none of the greeting, /bind, enable,
\* disable and status patterns.
NoPatternTexts ==
    {<<"foobar">>, <<"FooBar", SP>>, <<"turn", SP, SP, "on">>, <<"/bind">>,
     <<"turn", SP, "on", SP, "foo-bar">>,
     <<"turn", SP, "on", SP, "esp32_light_001", SP, "esp32_fan_002">>}

\* C3: a text that matches no pattern returns failure "Invalid command",
\* publishes nothing, and the user is sent "Invalid command. Please use
\* /start to view help."
C3_NoPatternIsInvalidCommand ==
    (Returned("parse") /\ req.text \in NoPatternTexts) =>
        /\ result = Result(FALSE, None, None, "Invalid command")
        /\ ~dispatch.made
        /\ sent = <<Send(req.chat_id,
                         Text("Invalid command. Please use /start to view help.",
                              None, <<>>), req.platform)>>

\* C4: in every state a call can start in, parsing a text and parsing its
\* trimmed, lower-cased form give the same result, the same publish calls,
\* the same messages to the user and the same shared state.
C4_CaseAndTrimInvariant ==
    pc = "idle" =>
        \A text \in Texts, caller \in Callers, d \in DefaultDevices, pubRaises \in BOOLEAN :
           \A fails \in BrokerRefusals(caller.chat_id) :
              IoTParse_Message(Shared, text, [device_id |-> d], caller.chat_id,
                               caller.platform, caller.user_id, caller.username,
                               fails, pubRaises)
              = IoTParse_Message(Shared, lower(strip(text)), [device_id |-> d],
                                 caller.chat_id, caller.platform, caller.user_id,
                                 caller.username, fails, pubRaises)

C4_Witness ==
    /\ Returned("parse")
    /\ req.text = <<SP, "Turn", SP, "ON", SP>>
    /\ result.success /\ result.action = "Enable"

\* C5: Device.enable / disable / get_status return true only if the publish
\* reached the broker; with a client that is not connected they return false.
C5_TrueOnlyIfPublished ==
    dispatch.made =>
        /\ dispatch.ret => \A c \in Published : c.outcome = "ok"
        /\ (\E c \in Published : c.outcome = "no_conn") => ~dispatch.ret

\* C6: a publish that hits a transport failure is retried after one
\* reconnect; no failure is reported, and no publish dropped, without a retry.
C6_RetryBeforeFailure ==
    (dispatch.made /\ dispatch.calls[1].outcome # "ok") =>
        /\ dispatch.reconnects >= 1
        /\ Len(dispatch.calls) >= 2

\* C7: a client handed out by a MessageAPI construction has had a
\* successful connect, also after an earlier construction for the key failed.
C7_HandedOutClientConnectedOnce ==
    (pc = "returned" /\ acq.made /\ ~acq.raised) => clients[acq.client].started

\* C8: connect tries at most 5 times, returns at the first attempt the broker
\* accepts, waits 5 seconds after each failed attempt that is followed by
\* another, and raises only when the 5th attempt fails too; it ends either
\* connected or raising.
C8_ConnectBounded ==
    (pc = "returned" /\ acq.made /\ ~acq.reused) =>
        /\ acq.attempts >= 1 /\ acq.attempts <= 5
        /\ req.fails < 5 => /\ ~acq.raised
                            /\ acq.attempts = req.fails + 1
                            /\ clients[acq.client].connected
        /\ req.fails >= 5 => /\ acq.raised
                             /\ acq.attempts = 5
                             /\ ~clients[acq.client].connected
        /\ acq.sleeps = IF acq.raised THEN acq.attempts - 1 ELSE req.fails
        /\ acq.waited = 5 * acq.sleeps

C8_Witness ==
    /\ pc = "returned" /\ acq.made /\ ~acq.reused
    /\ req.fails = 6 /\ acq.raised /\ acq.attempts = 5 /\ acq.sleeps = 4

\* C9: once the pool has an entry for a key, a later construction with that
\* key gets that very client, calls connect zero times and creates no
\* client; the entry is never replaced; no chat id means the key "default".
C9_PoolReuse ==
    [][/\ \A k \in DOMAIN client_pool :
            k \in DOMAIN client_pool' /\ client_pool'[k] = client_pool[k]
       /\ (pc = "idle" /\ pc' = "returned" /\ acq'.made) =>
            /\ acq'.key = IF req'.chat_id = None THEN "default" ELSE req'.chat_id
            /\ acq'.key \in DOMAIN client_pool =>
                 /\ acq'.client = client_pool[acq'.key]
                 /\ acq'.attempts = 0
                 /\ nextClient' = nextClient
                 /\ clients' = clients]_vars

C9_Witness ==
    /\ Returned("device")
    /\ req.chat_id = None
    /\ acq.made /\ acq.reused /\ acq.key = "default" /\ acq.attempts = 0

\* C10: a construction that creates the entry of a key, whether its connect
\* succeeds or fails, leaves every other key's entry and client as they were.
C10_OtherKeysUntouched ==
    [][(pc = "idle" /\ pc' = "returned" /\ acq'.made /\ ~acq'.reused) =>
          \A k \in DOMAIN client_pool :
             /\ k # acq'.key
             /\ k \in DOMAIN client_pool'
             /\ client_pool'[k] = client_pool[k]
             /\ client_pool[k] \in DOMAIN clients'
             /\ clients'[client_pool[k]] = clients[client_pool[k]]]_vars

C10_Witness ==
    /\ pc = "returned" /\ acq.made /\ ~acq.reused /\ acq.raised
    /\ \E k \in DOMAIN client_pool :
         k # acq.key /\ clients[client_pool[k]].connected

\* C11: every control envelope is published to the destination of the
\* manufacturer class of the device it names: "raspberrypi/..." when the
\* device id contains "raspberrypi", "esp32/..." for every other id; so no
\* envelope for a device of one class is on a destination of the other.
C11_PublishedToManufacturerDestination ==
    \A c \in Published :
       c.topic[1] = IF c.message.device_id \in {"raspberrypi_light_001",
                                               "raspberrypi_fan_002"}
                    THEN "raspberrypi" ELSE "esp32"

C11_Witness ==
    /\ Returned("parse")
    /\ req.device_id = "esp32_light_001"
    /\ dispatch.made /\ dispatch.calls[1].outcome = "ok"
    /\ dispatch.calls[1].message.device_id = "raspberrypi_fan_002"
    /\ dispatch.calls[1].topic = <<"raspberrypi", "fan", "enable">>

\* The step is a call of the operation op, from its start to its return.
CallStep(op) == pc = "idle" /\ pc' = "returned" /\ req'.op = op

\* The step is a /bind command in which Device.bind_user was called.
BindUserStep ==
    /\ CallStep("parse")
    /\ result'.action = "Bind" \/ result'.message = "Failed to bind to device"

\* C12 as stated: every bind, in memory and in the document, returns true
\* and leaves exactly one entry for the chat and its platform.
C12_EveryBindReturnsTrue ==
    [][/\ CallStep("save") =>
            /\ result'.success
            /\ CountBinding(BindingsOf(load_bindings([cached_bindings |-> cached_bindings']),
                                       req'.device_id),
                            Binding(req'.chat_id, req'.platform)) = 1
       /\ BindUserStep =>
            /\ result'.success
            /\ req'.chat_id \in BoundChats(bindings', result'.device_id)]_vars

\* C12: binding is idempotent.  save_binding never leaves more than one
\* record for (chat, platform) in the list of the device; it returns true
\* unless writing the document fails; a call that returns true leaves exactly
\* one record; a call for a binding that is there returns true and changes
\* nothing.  Device.bind_user returns true and adds the chat id to the set
\* of the device; for a chat that is in the set it changes nothing.
C12_BindIdempotent ==
    [][/\ CallStep("save") =>
            LET b == Binding(req'.chat_id, req'.platform)
                before == CountBinding(BindingsOf(cached_bindings, req'.device_id), b)
                after == CountBinding(BindingsOf(cached_bindings', req'.device_id), b)
            IN /\ after <= 1
               /\ result'.success <=> (req'.fails = 0)
               /\ result'.success => after = 1
               /\ before = 1 =>
                    result'.success /\ UNCHANGED <<cached_bindings, bindings_file>>
       /\ BindUserStep =>
            /\ result'.success
            /\ bindings' = (result'.device_id :>
                              (BoundChats(bindings, result'.device_id)
                               \cup {req'.chat_id})) @@ bindings
            /\ req'.chat_id \in BoundChats(bindings, result'.device_id)
                 => bindings' = bindings]_vars

C12_Witness ==
    /\ Returned("save")
    /\ req.chat_id = "A" /\ req.platform = "line"
    /\ result.success /\ result.message = "Binding already exists"
    /\ CountBinding(BindingsOf(cached_bindings, "esp32_light_001"),
                    Binding("A", "line")) = 1
    /\ Len(BindingsOf(cached_bindings, "esp32_light_001")) = 3
    /\ BoundChats(bindings, "esp32_light_001") = {"A", "B"}

\* The bindings a lookup of the bindings document yields for a device, the
\* only registry that keeps the platform with the chat id.
RecordedBindings(cached, device_id) ==
    LET list == BindingsOf(load_bindings([cached_bindings |-> cached]), device_id)
    IN {list[i] : i \in 1..Len(list)}

\* C13: from empty bindings, "/bind esp32_light_001" from chat A on line
\* returns success with action Bind, leaves the bound users of
\* esp32_light_001 as exactly chat A with platform line, and sends A
\* "Successfully bound to device esp32_light_001".
C13_BindRecordsChatWithPlatform ==
    [][(/\ CallStep("parse")
        /\ bindings = <<>> /\ cached_bindings = <<>>
        /\ req'.text = <<"/bind", SP, "esp32_light_001">>
        /\ req'.chat_id = "A" /\ req'.platform = "line")
       => /\ result' = Result(TRUE, "Bind", "esp32_light_001", None)
          /\ BoundChats(bindings', "esp32_light_001") = {"A"}
          /\ RecordedBindings(cached_bindings', "esp32_light_001")
               = {Binding("A", "line")}
          /\ sent' = <<Send("A", Text("Successfully bound to device {}",
                                      "esp32_light_001", <<>>), "line")>>]_vars

\* C14: when a chat binds to a device other chats have bound, every one of
\* those chats is sent "User <chat> has joined the group for device <id>"
\* during the /bind call.
C14_ExistingMembersNotified ==
    [][(CallStep("parse") /\ result'.action = "Bind") =>
          \A m \in BoundChats(bindings, result'.device_id) \ {req'.chat_id} :
             \E i \in 1..Len(sent') :
                /\ sent'[i].chat_id = m
                /\ sent'[i].text = Text("User {} has joined the group for device {}",
                                        req'.chat_id, <<result'.device_id>>)]_vars

\* The sends of the call that has just returned which go to the chat.
SendsTo(chat_id) == {i \in 1..Len(sent) : sent[i].chat_id = chat_id}

\* The status event of scenario 2: device esp32_light_001 is on, by Alice.
AliceOn == [kind |-> "object", doc |-> StatusDoc("on", "esp32_light_001", "Alice")]

\* C15: a status message (a body that decodes as JSON) whose routing key
\* has fewer than 3 segments is acknowledged, not rejected, causes no send
\* and leaves the greeted set as it was.
C15_ShortRoutingKeyAcked ==
    [][(/\ CallStep("status")
        /\ req'.body.kind # "invalid"
        /\ req'.text \in {<<"line", SLASH, "A">>, <<"status_update">>})
       => /\ settle' = [kind |-> "ack", requeue |-> FALSE]
          /\ sent' = <<>>
          /\ greeted_users' = greeted_users]_vars

C15_Witness ==
    /\ Returned("status")
    /\ req.text = <<"status_update">>
    /\ req.body = AliceOn
    /\ BoundChats(bindings, "esp32_light_001") = {"A", "B"}
    /\ greeted_users = {}
    /\ settle.kind = "ack" /\ sent = <<>>

C17_InvalidJsonRejectedNoRequeue ==
    (/\ pc = "returned"
     /\ req.op \in {"status", "command"}
     /\ req.body.kind = "invalid")
    => /\ settle = [kind |-> "nack", requeue |-> FALSE]
       /\ sent = <<>>
       /\ executor.http = <<>> /\ executor.status = <<>>

C17_Witness ==
    /\ Returned("status")
    /\ req.body.kind = "invalid"
    /\ req.text = <<"line", SLASH, "A", SLASH, "status_update">>
    /\ BoundChats(bindings, "esp32_light_001") = {"A", "B"}
    /\ settle.kind = "nack" /\ ~settle.requeue /\ sent = <<>>

\* A valid status event has returned: a key "<platform>/<chat>/status_update"
\* of a supported platform and a JSON object with device_status.
ValidStatusEvent ==
    /\ Returned("status")
    /\ req.text \in {<<"line", SLASH, "A", SLASH, "status_update">>,
                      <<"telegram", SLASH, "B", SLASH, "status_update">>}
    /\ req.body.kind = "object"
    /\ req.body.doc.device_status # Missing

\* The device a status event is about.
EventDevice ==
    IF req.body.doc.device_id = Missing THEN DEVICE_ID ELSE req.body.doc.device_id

\* C18: for each valid status event the originating chat gets exactly one
\* send, the "is now ... operated by" text, every other chat bound to the
\* device gets exactly one send, the "has been set to" text, and nobody
\* else gets any.
C18_OneSendPerChat ==
    ValidStatusEvent =>
        LET origin == req.text[3]
            others == BoundChats(bindings, EventDevice) \ {origin}
        IN /\ Cardinality(SendsTo(origin)) = 1
           /\ \A i \in SendsTo(origin) :
                 sent[i].text.fmt = "{}Device {} is now {}, operated by user {}"
           /\ \A c \in others :
                 /\ Cardinality(SendsTo(c)) = 1
                 /\ \A i \in SendsTo(c) :
                       sent[i].text.fmt = "Device {} has been set to {} by user {}"
           /\ \A i \in 1..Len(sent) : sent[i].chat_id \in {origin} \cup others

\* The platform a chat binds on: the platform of its adapter.
BoundPlatform(chat_id) == (CHOOSE k \in Callers : k.chat_id = chat_id).platform

\* C19: in the fan-out of a status event every bound chat is notified
\* through the platform it was bound on, also when the originating chat of
\* the routing key is on another platform.
C19_FanOutUsesBoundPlatform ==
    ValidStatusEvent =>
        \A i \in 1..Len(sent) :
           sent[i].chat_id \in BoundChats(bindings, EventDevice)
              => sent[i].platform = BoundPlatform(sent[i].chat_id)

\* C20: when the first status event for chat A arrives on
\* "line/A/status_update" with device_status on and username Alice, A is
\* sent "Hi, Alice\n" followed by "Device esp32_light_001 is now on,
\* operated by user Alice", and every other bound chat is sent "Device
\* esp32_light_001 has been set to on by user Alice" with no greeting.
C20_FirstEventGreetsOrigin ==
    [][(/\ CallStep("status")
        /\ req'.text = <<"line", SLASH, "A", SLASH, "status_update">>
        /\ req'.body = AliceOn
        /\ "A" \notin greeted_users)
       => /\ \E i \in 1..Len(sent') :
               sent'[i] = Send("A", Text("{}Device {} is now {}, operated by user {}",
                                         "Hi, Alice\n",
                                         <<"esp32_light_001", "on", "Alice">>), "line")
          /\ \A c \in BoundChats(bindings, "esp32_light_001") \ {"A"} :
               \E i \in 1..Len(sent') :
                  /\ sent'[i].chat_id = c
                  /\ sent'[i].text = Text("Device {} has been set to {} by user {}", None,
                                          <<"esp32_light_001", "on", "Alice">>)]_vars

\* The chats the step sends a greeting-prefixed message to: by the relay
\* (IMQbroker.send_message) or by the adapter (push).
GreetedBy(msgs) ==
    {msgs[i].chat_id : i \in {j \in 1..Len(msgs) :
                                /\ msgs[j].text.fmt \in {"{}Device {} is now {}, operated by user {}",
                                                         "{}{}"}
                                /\ msgs[j].text.arg # ""}}

\* C21: the greeted sets only grow, and a chat that has been sent a
\* greeting-prefixed message (it is then in a greeted set of the process) is
\* never sent a greeting-prefixed message again.
C21_GreetedAtMostOnce ==
    [][/\ greeted_users \subseteq greeted_users'
       /\ line_greeted \subseteq line_greeted'
       /\ (pc = "idle" /\ pc' = "returned")
            => \A c \in GreetedBy(sent') \cup GreetedBy(pushed') :
                  c \notin greeted_users \cup line_greeted]_vars

\* The status keys of the input set that are well formed: platform, chat
\* and the event status_update.
StatusKeys ==
    {<<"line", SLASH, "A", SLASH, "status_update">>,
     <<"telegram", SLASH, "B", SLASH, "status_update">>}

\* C22: a status event that cannot be processed (its body is not JSON, or
\* its handling raises: a body that is no object, a Device that cannot be
\* built) is rejected without requeue and leaves the consumer consuming on
\* its connection; a valid event, also one that comes after rejected ones,
\* is acknowledged and relayed to its chat.
C22_RejectedEventKeepsConsumer ==
    [][CallStep("status")
       => /\ relay' = relay /\ relay.loop = "consuming"
          /\ (\/ req'.body.kind = "invalid"
              \/ req'.body.kind = "number" /\ req'.text \in StatusKeys
              \/ acq'.raised)
               => settle' = Nack(FALSE) /\ sent' = <<>>
          /\ (/\ req'.text \in StatusKeys
              /\ req'.body.kind = "object"
              /\ req'.body.doc.device_status # Missing
              /\ ~acq'.raised)
               => /\ settle' = Ack
                  /\ \E i \in 1..Len(sent') :
                        /\ sent'[i].chat_id = split(req'.text)[2]
                        /\ sent'[i].text.fmt = "{}Device {} is now {}, operated by user {}"]_vars

\* A valid event is relayed after an event was rejected: the Device of the
\* call reuses the client whose connect failed in the rejected call.
C22_Witness ==
    /\ ValidStatusEvent
    /\ settle = Ack
    /\ sent # <<>>
    /\ acq.reused
    /\ ~clients[acq.client].started
    /\ relay.loop = "consuming"

\* The device ids whose state the step changes, in any virtual device.
StateChanged ==
    {id \in UNION {DOMAIN devices'[e] : e \in Executors} :
        \E e \in Executors :
           /\ id \in DOMAIN devices'[e]
           /\ id \notin DOMAIN devices[e] \/ devices'[e][id] # devices[e][id]}

\* C23: a control envelope for device X that an executor consumes causes no
\* device request, no state change and no status event for a device other
\* than X, and an executor whose own device is not X does nothing at all.
C23_CrossDeviceIsolation ==
    [][(CallStep("command") /\ req'.body.kind = "object")
       => LET X == req'.body.doc.device_id
          IN /\ \A i \in 1..Len(executor'.http) :
                   executor'.http[i].url[2] = X /\ executor'.http[i].device_id = X
             /\ \A i \in 1..Len(executor'.status) : executor'.status[i].event.device_id = X
             /\ StateChanged \subseteq {X}
             /\ req'.device_id # X
                  => executor' = NoExecutor /\ devices' = devices]_vars

\* The executor of esp32_light_001 has consumed an envelope for
\* esp32_fan_002 after one for its own device switched that device on.
C23_Witness ==
    /\ Returned("command")
    /\ req.device_id = "esp32_light_001"
    /\ req.body.kind = "object"
    /\ req.body.doc.device_id = "esp32_fan_002"
    /\ \E e \in Executors : devices[e] = ("esp32_light_001" :> "on")
    /\ executor = NoExecutor

\* C24: a control message (a JSON object) whose processing fails, by a
\* device request that does not answer 200 or by an exception in the
\* handler, is requeued or left unacknowledged: it is neither acknowledged
\* nor rejected without requeue.
C24_FailedCommandRedelivered ==
    [][(CallStep("command") /\ req'.body.kind = "object")
       => /\ settle' # Nack(FALSE)
          /\ (\E i \in 1..Len(executor'.http) : executor'.http[i].response # "200")
               => settle' \in {Nack(TRUE), NoSettle}]_vars

\* The documents of the input set that are malformed: no JSON, a value that
\* is no list, an entry that lacks chat_id or platform.
Malformed(doc) ==
    \/ doc.kind = "invalid"
    \/ /\ doc.kind = "object"
       /\ \E i \in 1..Len(doc.items) :
             \/ doc.items[i].value.kind # "list"
             \/ \E k \in 1..Len(doc.items[i].value.entries) :
                   ~HasKeys(doc.items[i].value.entries[k])

Holds(data, device_id, b) ==
    device_id \in DOMAIN data /\ CountBinding(data[device_id], b) > 0

\* C26: when two threads have both returned true from save_binding calls
\* that ran at the same time, the bindings document and the cache both hold
\* the binding of each of them.
C26_NoBindingLost ==
    (\A t \in Threads : savers[t].pc = "done" /\ savers[t].ret)
       => \A t \in Threads :
             /\ Holds(bindings_file, savers[t].device_id, savers[t].binding)
             /\ Holds(cached_bindings, savers[t].device_id, savers[t].binding)

\* C27: a status_update message (a JSON object) without device_status, with
\* an empty chat id segment, or with a platform other than telegram and
\* line is acknowledged and causes no send, whether or not the control
\* broker can be reached.
C27_UnusableStatusAcked ==
    [][(/\ CallStep("status")
        /\ req'.body.kind = "object"
        /\ Len(split(req'.text)) = 3
        /\ split(req'.text)[3] = "status_update"
        /\ \/ req'.body.doc.device_status = Missing
           \/ split(req'.text)[2] = ""
           \/ split(req'.text)[1] \notin {"telegram", "line"})
       => settle' = Ack /\ sent' = <<>>]_vars

Connections(key) == {c \in DOMAIN clients : c[1] = key /\ clients[c].started}

\* C29: when two threads have both come out of MessageAPI.__init__ for the
\* same key without an exception, one of them having made a client, the
\* pool holds one client for the key, one connection has been established
\* for the key, and both threads hold that client.
C29_OneClientPerKey ==
    \A t, u \in Threads :
       (/\ t # u
        /\ inits[t].pc = "done" /\ inits[u].pc = "done"
        /\ inits[t].key = inits[u].key
        /\ ~inits[t].raised /\ ~inits[u].raised)
       => /\ inits[t].client = inits[u].client
          /\ client_pool[inits[t].key] = inits[t].client
          /\ Cardinality(Connections(inits[t].key)) <= 1

\* The texts IoTParse_Message sends when it returns success = False.
FailureTexts ==
    {"Failed to bind to device {}", "Failed to enable device {}",
     "Failed to disable device {}", "Failed to get status of device {}",
     "Invalid command. Please use /start to view help.",
     "An error occurred while processing your command. Please try again."}

\* C30: when IoTParse_Message returns success = False, it has sent one
\* message that explains the failure to the chat the command came from, on
\* the platform it came from, as the last thing it sent; it has published
\* at most once and reconnected no client.
C30_FailureReportedNotRetried ==
    (Returned("parse") /\ ~result.success)
       => /\ sent # <<>>
          /\ LET last == sent[Len(sent)]
             IN /\ last.chat_id = req.chat_id
                /\ last.platform = req.platform
                /\ \/ last.text.fmt \in FailureTexts
                   \/ \E d \in DefaultDevices \cup {"garage_door", "foo"} :
                         last.text = InvalidDeviceText(d)
          /\ Cardinality(SendsTo(req.chat_id)) = 1
          /\ Len(dispatch.calls) <= 1
          /\ dispatch.reconnects = 0

\* A command whose publish raised has been answered with "Failed to enable
\* device".
C30_Witness ==
    /\ Returned("parse")
    /\ ~result.success
    /\ result.message = "Failed to enable device"
    /\ Len(dispatch.calls) = 1
    /\ dispatch.calls[1].outcome = "raise"
    /\ sent[1].text.fmt = "Failed to enable device {}"

\* C31: parsing hi, hello or /start (in any case, with blanks around it)
\* returns success with action Help, sends the help text to the chat and
\* nothing else, leaves the bindings as they were, publishes no control
\* message and neither creates nor connects a pooled client.
C31_GreetingIsHelpOnly ==
    [][(/\ CallStep("parse")
        /\ Normalize(req'.text) \in {<<"hi">>, <<"hello">>, <<"/start">>})
       => /\ result'.success
          /\ result'.action = "Help"
          /\ Len(sent') = 1
          /\ sent'[1].chat_id = req'.chat_id
          /\ sent'[1].text.fmt = HelpText("User").fmt
          /\ bindings' = bindings
          /\ ~dispatch'.made
          /\ dispatch'.calls = <<>>
          /\ ~acq'.made
          /\ client_pool' = client_pool
          /\ clients' = clients
          /\ nextClient' = nextClient]_vars

\* "/START" has been answered with the help while a chat is bound to a
\* device and a client is pooled.
C31_Witness ==
    /\ Returned("parse")
    /\ req.text = <<"/START">>
    /\ result.action = "Help"
    /\ \E d \in DOMAIN bindings : bindings[d] # {}
    /\ DOMAIN client_pool # {}

\* C32: when the parser builds a Device whose client has to be connected and
\* the broker refuses every attempt, IoTParse_Message returns (it does not
\* raise) with success = False and message "Error processing command" after
\* exactly max_retries attempts, publishes nothing and sends the chat the
\* generic error text and nothing else.
C32_UnreachableBrokerIsReported ==
    [][(/\ CallStep("parse")
        /\ acq'.made
        /\ ~acq'.reused
        /\ req'.fails >= max_retries)
       => /\ result' = Result(FALSE, None, None, "Error processing command")
          /\ acq'.attempts = max_retries
          /\ acq'.sleeps < max_retries
          /\ ~dispatch'.made
          /\ sent' = <<Send(req'.chat_id,
                            Text("An error occurred while processing your command. Please try again.",
                                 None, <<>>),
                            req'.platform)>>]_vars

\* "turn on" was handled while the broker refused every attempt.
C32_Witness ==
    /\ Returned("parse")
    /\ req.text = <<"turn", SP, "on">>
    /\ req.fails = max_retries
    /\ acq.raised
    /\ acq.attempts = max_retries
    /\ ~result.success

\* The send_message calls of the LINE adapter's threads that have put the
\* greeting in front of their text for the chat: the POSTs made and the
\* calls that are about to POST.
GreetingsPrepended(chat_id) ==
    Cardinality({i \in 1..Len(posted) :
                    posted[i].chat_id = chat_id /\ posted[i].text.arg # ""})
    + Cardinality({t \in Threads : /\ workers[t].pc = "post"
                                   /\ workers[t].to = chat_id
                                   /\ workers[t].greeting})

\* C33: however the send_message calls of the LINE adapter's threads
\* interleave, exactly one call prepends the greeting for a chat once any
\* call has come out of check_and_add_greeted_user for it, and none before.
C33_ExactlyOneCallGreets ==
    \A chat_id \in Chats :
       GreetingsPrepended(chat_id) = IF chat_id \in line_greeted THEN 1 ELSE 0

\* Two send_message calls to chat A, started while A was not greeted, have
\* both come out of check_and_add_greeted_user before either has POSTed.
C33_Witness ==
    /\ posted = <<>>
    /\ \A t \in Threads : /\ workers[t].op = "send_message"
                          /\ workers[t].to = "A"
                          /\ workers[t].pc = "post"
                          /\ workers[t].calls = 0

\* The thread is blocked: the lock it asks for is held.
Blocked(t) == workers[t].pc = "wait" /\ locks[workers[t].waits] # None

\* C37: a thread of the LINE adapter that asks for user_ids_lock holds no
\* lock (greeted_users_lock is only ever taken after user_ids_lock, never
\* before it), and whenever some thread is inside add_user_id, send_message
\* or send_all_message, some such thread is not blocked on a lock: no
\* interleaving deadlocks.
C37_LockOrderNoDeadlock ==
    /\ \A t \in Threads :
          workers[t].waits = "user_ids_lock" => \A l \in DOMAIN locks : locks[l] # t
    /\ \A t \in Threads : ~(Blocked(t) /\ locks[workers[t].waits] = t)
    /\ (\E t \in Threads : workers[t].pc # "idle")
          => \E t \in Threads : workers[t].pc # "idle" /\ ~Blocked(t)

\* send_all_message holds user_ids_lock and is blocked on
\* greeted_users_lock, which a send_message call of the other thread holds,
\* after an add_user_id call has run.
C37_Witness ==
    /\ user_ids # {}
    /\ locks["user_ids_lock"] = "t1"
    /\ locks["greeted_users_lock"] = "t2"
    /\ workers["t1"].op = "send_all_message"
    /\ workers["t1"].waits = "greeted_users_lock"
    /\ workers["t2"].op = "send_message"

\* The positions of the settlement calls in the callback's call sequence.
Settlements == {i \in 1..Len(trace) : trace[i].call \in {"basic_ack", "basic_nack"}}

C35_StatusEventOnlyAfter200 ==
    (Returned("command") /\ executor.status # <<>>)
       => /\ Len(executor.http) = 1
          /\ executor.http[1].response = "200"
          /\ req.body.kind = "object"
          /\ req.body.doc.device_id = req.device_id
          /\ executor.http[1].device_id = req.device_id
          /\ Len(executor.status) = 1
          /\ executor.status[1].event.device_id = req.device_id
          /\ req.body.doc.command = "on"
                => executor.status[1].event.device_status = "on"
          /\ req.body.doc.command = "off"
                => executor.status[1].event.device_status = "off"

\* A disable command was answered with 200 by the device and the status
\* event off was published.
C35_Witness ==
    /\ Returned("command")
    /\ req.body.doc.command = "off"
    /\ Len(executor.http) = 1
    /\ executor.http[1].response = "200"
    /\ Len(executor.status) = 1
    /\ executor.status[1].event.device_status = "off"

\* The executor called notify_status for the command: the device answered
\* its request with 200.
NotifyCalled ==
    /\ Returned("command")
    /\ executor.http # <<>>
    /\ executor.http[1].response = "200"

C38_ReadYourWrites ==
    (Returned("save") /\ result.success)
       => /\ CountBinding(BindingsOf(load_bindings([cached_bindings |-> cached_bindings,
                                                    bindings_file |-> bindings_file]),
                                     req.device_id),
                          Binding(req.chat_id, req.platform)) > 0
          /\ cached_bindings = bindings_file

\* The failure messages the chat was sent for the webhook event: the sends
\* of the parser that carry a failure text, and the adapter's own sends.
FailureMessages ==
    Cardinality({i \in 1..Len(sent) :
                    /\ sent[i].chat_id = req.chat_id
                    /\ \/ sent[i].text.fmt \in FailureTexts
                       \/ sent[i].text.fmt = InvalidDeviceText(None).fmt})
    + Len(pushed)

\* C39: for a LINE webhook message whose command fails, the chat is sent
\* exactly one failure message: the parser's failure send and the webhook
\* handler's own failure send do not both occur.
C39_OneFailureMessage ==
    (Returned("webhook") /\ ~result.success) => FailureMessages = 1

====
